---- MODULE Spec2Model ----
(***************************************************************************)
(* A model of the agent execution pipeline of hands-and-voice:             *)
(*   - the starter-kit AgentClient / LLMClient                             *)
(*       (starter-kit/js/agent-client.js, starter-kit/js/llm-client.js)    *)
(*   - the demo (Fidelity) AgentClient / LLMClient                         *)
(*       (unnamed/part_003, js/webmcp-provider.js)                         *)
(*                                                                         *)
(* processPrompt is an async generator.  A generator object is modelled   *)
(* as a coroutine: pc[g] names the suspension point (a `yield`, label     *)
(* y..., or an `await`, label a...) at which it is parked.  The code      *)
(* between two suspension points runs atomically (the host is a           *)
(* single-threaded event loop), so it is one action.  A step out of a     *)
(* y-label is the consumer calling next(); a step out of an a-label is    *)
(* the awaited promise settling.                                           *)
(*                                                                         *)
(* Identifiers built from Date.now() and Math.random() are modelled as    *)
(* tuples naming the generator (and the request index): fresh per run     *)
(* and per tool call.  Event timestamps are left out.                     *)
(***************************************************************************)
EXTENDS Integers, Sequences, FiniteSets, TLC

(***************************************************************************)
(* Bounds of the model.                                                    *)
(***************************************************************************)
\* number of processPrompt calls (generator objects) made on one AgentClient
MaxGens == 2
\* longest list of tool calls the remote completion service returns
MaxCalls == 2

Gens == 1..MaxGens

(***************************************************************************)
(* Strings.  TLC gives Len, SubSeq and \o on strings.                      *)
(***************************************************************************)
CharAt(s, i) == SubSeq(s, i, i)

Upper == "ABCDEFGHIJKLMNOPQRSTUVWXYZ"
Lower == "abcdefghijklmnopqrstuvwxyz"

LowerChar(c) ==
  IF \E i \in 1..Len(Upper) : CharAt(Upper, i) = c
  THEN CharAt(Lower, CHOOSE i \in 1..Len(Upper) : CharAt(Upper, i) = c)
  ELSE c

RECURSIVE LowerFrom(_, _)
LowerFrom(s, i) ==
  IF i > Len(s) THEN "" ELSE LowerChar(CharAt(s, i)) \o LowerFrom(s, i + 1)

\* String.prototype.toLowerCase
toLowerCase(s) == LowerFrom(s, 1)

\* String.prototype.includes
includes(s, kw) ==
  \E i \in 1..(Len(s) - Len(kw) + 1) : SubSeq(s, i, i + Len(kw) - 1) = kw

\* String.prototype.split(' '): the pieces between consecutive spaces.  The
\* set of the positions of the spaces is bound once, as the argument of a
\* function, and at[k] is the position of the k-th space: 0 before the first,
\* Len(s)+1 after the last
split(s) ==
  LET pieces ==
        [sp \in {{i \in 1..Len(s) : CharAt(s, i) = " "}} |->
           LET at == [k \in 0..(Cardinality(sp) + 1) |->
                        IF k = 0 THEN 0
                        ELSE IF k > Cardinality(sp) THEN Len(s) + 1
                        ELSE CHOOSE p \in sp :
                               Cardinality({q \in sp : q < p}) = k - 1]
           IN [k \in 1..(Cardinality(sp) + 1) |->
                 SubSeq(s, at[k - 1] + 1, at[k] - 1)]]
  IN pieces[CHOOSE sp \in DOMAIN pieces : TRUE]

RECURSIVE JoinFrom(_, _, _)
JoinFrom(ws, sep, i) ==
  IF i > Len(ws) THEN ""
  ELSE IF i = Len(ws) THEN ws[i]
  ELSE ws[i] \o sep \o JoinFrom(ws, sep, i + 1)

\* Array.prototype.join
join(ws, sep) == JoinFrom(ws, sep, 1)

(***************************************************************************)
(* JavaScript values that cross the pipeline, tagged by type.              *)
(* An object is the sequence of its <<key, value>> pairs in insertion      *)
(* order.  "circular" stands for a value JSON.stringify throws on          *)
(* (a cyclic object, a BigInt).                                            *)
(***************************************************************************)
JUndefined == [t |-> "undefined"]
JNull == [t |-> "null"]
JBool(b) == [t |-> "bool", b |-> b]
JStr(s) == [t |-> "str", s |-> s]
JNum(n) == [t |-> "num", n |-> n]
\* a number with two decimal places, as its hundredths
JDec(h) == [t |-> "dec", h |-> h]
\* a number the model does not evaluate, as the expression giving it
JExpr(e) == [t |-> "expr", e |-> e]
JObj(fields) == [t |-> "obj", f |-> fields]
JCircular == [t |-> "circular"]

\* JavaScript truthiness of a tagged value
Truthy(v) ==
  CASE v.t = "undefined" -> FALSE
    [] v.t = "null" -> FALSE
    [] v.t = "bool" -> v.b
    [] v.t = "str" -> v.s # ""
    [] v.t = "num" -> v.n # 0
    [] v.t = "dec" -> v.h # 0
    [] OTHER -> TRUE

\* Object.keys(v).length
NumKeys(v) == IF v.t = "obj" THEN Len(v.f) ELSE 0

\* does JSON.stringify(v) return (rather than throw)?
RECURSIVE Serializable(_)
Serializable(v) ==
  CASE v.t = "circular" -> FALSE
    [] v.t = "obj" -> \A i \in 1..Len(v.f) : Serializable(v.f[i][2])
    [] OTHER -> TRUE

RECURSIVE JSONstringify(_)
RECURSIVE StringifyFields(_, _, _)
\* the members of an object; a member whose value is undefined is left out
StringifyFields(fs, i, first) ==
  IF i > Len(fs) THEN ""
  ELSE IF fs[i][2].t = "undefined" THEN StringifyFields(fs, i + 1, first)
  ELSE (IF first THEN "" ELSE ",") \o "\"" \o fs[i][1] \o "\":"
         \o JSONstringify(fs[i][2]) \o StringifyFields(fs, i + 1, FALSE)

\* JSON.stringify of a serializable value ("undefined" for undefined, which
\* JSON.stringify maps to the value undefined, not to a string)
JSONstringify(v) ==
  CASE v.t = "undefined" -> "undefined"
    [] v.t = "null" -> "null"
    [] v.t = "bool" -> IF v.b THEN "true" ELSE "false"
    [] v.t = "str" -> "\"" \o v.s \o "\""
    [] v.t = "num" -> ToString(v.n)
    [] v.t = "dec" ->
         ToString(v.h \div 100)
           \o (IF v.h % 100 = 0 THEN ""
               ELSE IF v.h % 10 = 0 THEN "." \o ToString((v.h % 100) \div 10)
               ELSE "." \o ToString((v.h % 100) \div 10) \o ToString(v.h % 10))
    [] v.t = "expr" -> "<" \o v.e \o ">"
    [] v.t = "obj" -> "{" \o StringifyFields(v.f, 1, TRUE) \o "}"

(***************************************************************************)
(* AG-UI protocol events (unnamed/part_002).                               *)
(***************************************************************************)
RunStartedEvent(threadId, runId) ==
  [type |-> "RUN_STARTED", threadId |-> threadId, runId |-> runId]
RunFinishedEvent(threadId, runId, result) ==
  [type |-> "RUN_FINISHED", threadId |-> threadId, runId |-> runId,
   result |-> result]
RunErrorEvent(threadId, runId, error) ==
  [type |-> "RUN_ERROR", threadId |-> threadId, runId |-> runId,
   error |-> error]
TextMessageStartEvent(messageId, role) ==
  [type |-> "TEXT_MESSAGE_START", messageId |-> messageId, role |-> role]
TextMessageContentEvent(messageId, delta) ==
  [type |-> "TEXT_MESSAGE_CONTENT", messageId |-> messageId, delta |-> delta]
TextMessageEndEvent(messageId) ==
  [type |-> "TEXT_MESSAGE_END", messageId |-> messageId]
ToolCallStartEvent(toolCallId, toolCallName, parentMessageId) ==
  [type |-> "TOOL_CALL_START", toolCallId |-> toolCallId,
   toolCallName |-> toolCallName, parentMessageId |-> parentMessageId]
ToolCallArgsEvent(toolCallId, delta) ==
  [type |-> "TOOL_CALL_ARGS", toolCallId |-> toolCallId, delta |-> delta]
ToolCallEndEvent(toolCallId) ==
  [type |-> "TOOL_CALL_END", toolCallId |-> toolCallId]
ToolCallResultEvent(messageId, toolCallId, result) ==
  [type |-> "TOOL_CALL_RESULT", messageId |-> messageId,
   toolCallId |-> toolCallId, result |-> result]
CustomEvent(message) == [type |-> "CUSTOM", message |-> message]

(***************************************************************************)
(* State.                                                                  *)
(***************************************************************************)
VARIABLES
  isProcessing,   \* AgentClient.isProcessing (starter kit)
  useRealLLM,     \* LLMClient.useRealLLM
  apiKey,         \* LLMClient.apiKey, a tagged value (null or a string)
  tools,          \* AgentClient.tools: the array of tool names it was given
  app,            \* the data of the application the tools work on
  pc,             \* per generator: where it is parked
  prompt,         \* per generator: the argument of processPrompt
  events,         \* per generator: the events it has yielded, in order
  toolCalls,      \* per generator: the local toolCalls
  idx,            \* per generator: position in toolCalls of the for..of loop
                  \*   under way
  executedTools,  \* per generator: the local executedTools
  held,           \* per generator: the local result / toolError / response
  words,          \* per generator: the local words of streamResponse
  widx,           \* per generator: the loop index i of streamResponse
  execLog,        \* per generator: the invocations of tool executables,
                  \*   each with the request it serves and how it settled
  resolveLog      \* per generator: number of llmClient.getToolCalls calls

vars == <<isProcessing, useRealLLM, apiKey, tools, app, pc, prompt, events,
          toolCalls, idx, executedTools, held, words, widx, execLog,
          resolveLog>>

\* what a run of the starter-kit AgentClient leaves as it is: the LLMClient
\* settings, the tool list, and the application data (the starter-kit
\* executables are modelled by how they settle)
config == <<useRealLLM, apiKey, tools, app>>
locals == <<toolCalls, idx, executedTools, held, words, widx>>

(***************************************************************************)
(* Inputs.                                                                 *)
(***************************************************************************)
\* The prompts handed to processPrompt: strings, and a value that is not a
\* string (processPrompt is callable with any value).
Prompts ==
  {JStr("Refresh and ANALYZE"), JStr("hello"), JUndefined}

\* The keys LLMClient.setApiKey is given
ApiKeys == {JStr("sk-test"), JStr("")}

\* What a tool executable does when invoked: resolve with a JSON value,
\* resolve with a value JSON.stringify throws on, or reject with an Error
\* carrying a message.
ToolErrorMessage == "tool failed"
ToolResultOk == JObj(<< <<"success", JBool(TRUE)>> >>)

\* The tool_calls entries the completion service may return
\* (llm-client.js:113-121 reads type, function.name, function.arguments)
RemoteToolCallPool ==
  { [type |-> "function", name |-> "refreshData",
     arguments |-> "{\"force\":true}"],
    [type |-> "function", name |-> "unknownTool", arguments |-> ""],
    [type |-> "function", name |-> "analyzeData", arguments |-> "{bad"],
    [type |-> "other", name |-> "getAppData", arguments |-> "{}"] }

RemoteReplies ==
  UNION {[1..n -> RemoteToolCallPool] : n \in 0..MaxCalls}

\* The ways the completion call fails
FetchFailures == {"network_error", "http_error", "bad_body", "bad_arguments"}

\* The content of the message the phrasing call returns
RemoteContents == {JStr("All done"), JNull}

(***************************************************************************)
(* JSON.parse over the argument strings of RemoteToolCallPool: the value   *)
(* whose serialization is the string, if there is one.                     *)
(***************************************************************************)
JsonValues ==
  {JObj(<<>>), JObj(<< <<"force", JBool(TRUE)>> >>), JNull, JBool(TRUE),
   JObj(<< <<"strategy", JStr("aggressive")>> >>)}

Parses(str) == \E v \in JsonValues : JSONstringify(v) = str
JSONparse(str) == CHOOSE v \in JsonValues : JSONstringify(v) = str

(***************************************************************************)
(* Starter-kit LLMClient (starter-kit/js/llm-client.js).                   *)
(***************************************************************************)
ToolCall(name, args) == [name |-> name, args |-> args]

\* getToolCallsFromKeywords, had the rules been tried from the last to the
\* first
getToolCallsFromKeywords_Reversed(s) ==
  LET lowercasePrompt == toLowerCase(s)
      has(kw) == includes(lowercasePrompt, kw)
      r1 == IF has("show") \/ has("get") \/ has("display") \/ has("view")
            THEN <<ToolCall("getAppData", JObj(<<>>))>> ELSE <<>>
      r2 == IF has("refresh") \/ has("reload") \/ has("update") \/ has("fetch")
            THEN <<ToolCall("refreshData", JObj(<<>>))>> ELSE <<>>
      r3 == IF has("analyze") \/ has("analysis") \/ has("examine")
               \/ has("insight")
            THEN <<ToolCall("analyzeData", JObj(<<>>))>> ELSE <<>>
      r4 == IF has("report") \/ has("generate") \/ has("create")
               \/ has("export")
            THEN <<ToolCall("generateReport", JObj(<<>>))>> ELSE <<>>
  IN r4 \o r3 \o r2 \o r1

\* getToolCallsFromKeywords, lines 143-167, on a string
getToolCallsFromKeywords(s) ==
  LET lowercasePrompt == toLowerCase(s)
      has(kw) == includes(lowercasePrompt, kw)
      r1 == IF has("show") \/ has("get") \/ has("display") \/ has("view")
            THEN <<ToolCall("getAppData", JObj(<<>>))>> ELSE <<>>
      r2 == IF has("refresh") \/ has("reload") \/ has("update") \/ has("fetch")
            THEN <<ToolCall("refreshData", JObj(<<>>))>> ELSE <<>>
      r3 == IF has("analyze") \/ has("analysis") \/ has("examine")
               \/ has("insight")
            THEN <<ToolCall("analyzeData", JObj(<<>>))>> ELSE <<>>
      r4 == IF has("report") \/ has("generate") \/ has("create")
               \/ has("export")
            THEN <<ToolCall("generateReport", JObj(<<>>))>> ELSE <<>>
  IN r1 \o r2 \o r3 \o r4

\* prompt.toLowerCase() on a value that is not a string throws a TypeError
KeywordsThrows(p) == p.t # "str"
KeywordsErrorMessage ==
  "Cannot read properties of undefined (reading 'toLowerCase')"

\* RemoteActive, had getToolCalls tested the flag alone
RemoteActive_FlagOnly == useRealLLM

\* getToolCalls, line 48: the remote strategy is taken
RemoteActive == useRealLLM /\ Truthy(apiKey)

\* getToolCallsFromOpenAI, lines 112-122, on a parsed response body:
\* does extracting the calls throw (JSON.parse of the arguments)?
ExtractThrows(reply) ==
  \E i \in 1..Len(reply) :
     /\ reply[i].type = "function"
     /\ reply[i].arguments # ""
     /\ ~Parses(reply[i].arguments)

RECURSIVE ExtractFrom(_, _)
ExtractFrom(reply, i) ==
  IF i > Len(reply) THEN <<>>
  ELSE (IF reply[i].type = "function"
        THEN <<ToolCall(reply[i].name,
                        JSONparse(IF reply[i].arguments = "" THEN "{}"
                                  ELSE reply[i].arguments))>>
        ELSE <<>>) \o ExtractFrom(reply, i + 1)

ExtractCalls(reply) == ExtractFrom(reply, 1)

RECURSIVE NamesFrom(_, _)
NamesFrom(calls, i) ==
  IF i > Len(calls) THEN <<>> ELSE <<calls[i].name>> \o NamesFrom(calls, i + 1)

\* toolCalls.map(call => call.name)
CallNames(calls) == NamesFrom(calls, 1)

\* LLMClient.generateSimpleResponse, lines 351-358
LLMSimpleResponse(calls) ==
  IF Len(calls) = 0
  THEN "I understand your request, but I don't have the right tools to help with that at the moment."
  ELSE "I've executed the following tools for you: "
         \o join(CallNames(calls), ", ")
         \o ". The results are displayed in your application above."

(***************************************************************************)
(* Starter-kit AgentClient helpers (starter-kit/js/agent-client.js).       *)
(***************************************************************************)
ThreadId(g) == <<"thread", g>>
RunId(g) == <<"run", g>>
ToolCallId(g, i) == <<"tool", g, i>>
MessageId(g, i) == <<"msg", g, i>>
ResponseMessageId(g) == <<"response", g>>

BusyMessage == "Agent is already processing a request. Please wait."

\* this.tools.find(t => t.name === name) finds a tool
HasTool(name) == \E k \in 1..Len(tools) : tools[k] = name

\* generateSimpleResponse, lines 168-176 (executedTools as their calls)
generateSimpleResponse(ex) ==
  IF Len(ex) = 1
  THEN "I've executed the " \o ex[1].name
         \o " tool for you. The results are displayed in your application above."
  ELSE "I've executed multiple tools for you: " \o join(CallNames(ex), ", ")
         \o ". The results are displayed in your application above."

\* generateNoToolsResponse, lines 184-187 (a template literal: String(prompt))
generateNoToolsResponse(p) ==
  "I understand your request: \""
    \o (IF p.t = "str" THEN p.s ELSE "undefined")
    \o "\", but I don't have the specific tools needed to help with that right now. Try asking me to show data, refresh information, analyze results, or generate reports."

ResponseErrorText ==
  "I encountered an error while generating my response, but the requested actions may have completed successfully."

\* the payload of the TOOL_CALL_RESULT of a failed tool, lines 77-80
FailurePayload(message) ==
  JSONstringify(JObj(<< <<"error", JStr(message)>>,
                        <<"success", JBool(FALSE)>> >>))

(***************************************************************************)
(* Starter-kit AgentClient.processPrompt and streamResponse                *)
(* (starter-kit/js/agent-client.js:32-160), one action per stretch of      *)
(* code between two suspension points.                                     *)
(***************************************************************************)
Emit(g, e) == events' = [events EXCEPT ![g] = Append(@, e)]
Goto(g, label) == pc' = [pc EXCEPT ![g] = label]

\* first request at or after position i that names a tool of this.tools
\* (line 53); 0 when there is none
NextFound(calls, i) ==
  LET S == {j \in i..Len(calls) : HasTool(calls[j].name)}
  IN IF S = {} THEN 0 ELSE CHOOSE j \in S : \A k \in S : j <= k

\* the for..of loop from request i on (lines 52-59, 82-88): requests that
\* name no tool are skipped with a console warning; the next one that does
\* gets TOOL_CALL_START; after the last one streamResponse starts (line 122)
ContinueLoop(g, calls, i) ==
  LET j == NextFound(calls, i)
  IN IF j # 0
     THEN /\ idx' = [idx EXCEPT ![g] = j]
          /\ Emit(g, ToolCallStartEvent(ToolCallId(g, j), calls[j].name,
                                        MessageId(g, j)))
          /\ Goto(g, "yToolStart")
     ELSE /\ idx' = [idx EXCEPT ![g] = Len(calls) + 1]
          /\ Emit(g, TextMessageStartEvent(ResponseMessageId(g), "assistant"))
          /\ Goto(g, "yTextStart")

\* the outer catch, lines 93-101
CatchProcessingError(g, message) ==
  /\ Emit(g, RunErrorEvent(ThreadId(g), RunId(g),
                           [message |-> message, code |-> "PROCESSING_ERROR"]))
  /\ Goto(g, "yRunError")

\* tool.execute(call.args || {}) is called, line 67
InvokeTool(g, i) ==
  /\ execLog' = [execLog EXCEPT
                   ![g] = Append(@, [idx |-> i, name |-> toolCalls[g][i].name,
                                     by |-> "processPrompt",
                                     outcome |-> "pending"])]
  /\ Goto(g, "aTool")

\* the record of invocations once the pending one of g has settled
Settled(g, how) == [execLog EXCEPT ![g][Len(execLog[g])].outcome = how]

\* the pending invocation of generator g settles
Settle(g, how) == execLog' = Settled(g, how)

\* Generators are numbered in the order in which they are created and
\* first driven: creating one has no effect but to bind its prompt, so a
\* creation commutes with every step of the other generators.
Started(h) == pc[h] \notin {"unborn", "start"}

\* a call that takes the busy flag when the event sequence is created
Call_Claims(g, p) ==
  /\ pc[g] = "unborn"
  /\ \A h \in Gens : h < g => Started(h)
  /\ Goto(g, "start")
  /\ prompt' = [prompt EXCEPT ![g] = p]
  /\ isProcessing' = TRUE
  /\ UNCHANGED <<config, events, locals, execLog, resolveLog>>

\* agentClient.processPrompt(prompt): the generator object is created and
\* nothing of its body runs
Call(g, p) ==
  /\ pc[g] = "unborn"
  /\ \A h \in Gens : h < g => Started(h)
  /\ Goto(g, "start")
  /\ prompt' = [prompt EXCEPT ![g] = p]
  /\ UNCHANGED <<isProcessing, config, events, locals, execLog,
                 resolveLog>>

\* first next(), lines 33-35: the agent is busy
BusyReject(g) ==
  /\ pc[g] = "start"
  /\ isProcessing
  /\ Emit(g, CustomEvent(BusyMessage))
  /\ Goto(g, "yBusy")
  /\ UNCHANGED <<isProcessing, config, prompt, locals, execLog,
                 resolveLog>>

\* BusyReturn, had the busy check been placed inside the try statement: the
\* finally block would release the flag of the run in progress
BusyReturn_Releases(g) ==
  /\ pc[g] = "yBusy"
  /\ Goto(g, "done")
  /\ isProcessing' = FALSE
  /\ UNCHANGED <<config, prompt, events, locals, execLog, resolveLog>>

\* next() after the busy notification, line 35: return
BusyReturn(g) ==
  /\ pc[g] = "yBusy"
  /\ Goto(g, "done")
  /\ UNCHANGED <<isProcessing, config, prompt, events, locals, execLog,
                 resolveLog>>

\* A generator that will take no further step has no effect on the program
\* any more, and the record kept of it (its events, its locals) is dropped:
\* at once when its consumer closes or abandons it, and, for a drained run,
\* when the next run is accepted (main.js:164 clears the previous output
\* before each run).  pc keeps how it ended.
Drop(f, D, init) == [h \in Gens |-> IF h \in D THEN init ELSE f[h]]

DropRecords(D) ==
  /\ prompt' = Drop(prompt, D, JUndefined)
  /\ toolCalls' = Drop(toolCalls, D, <<>>)
  /\ idx' = Drop(idx, D, 0)
  /\ executedTools' = Drop(executedTools, D, <<>>)
  /\ held' = Drop(held, D, JUndefined)
  /\ words' = Drop(words, D, <<>>)
  /\ widx' = Drop(widx, D, 0)
  /\ execLog' = Drop(execLog, D, <<>>)
  /\ resolveLog' = Drop(resolveLog, D, 0)

\* the drained runs (not the busy-rejected calls)
DrainedRuns == {h \in Gens : pc[h] = "done" /\ resolveLog[h] > 0}

\* first next(), lines 33-45: the run is accepted
Accept(g) ==
  /\ pc[g] = "start"
  /\ ~isProcessing
  /\ isProcessing' = TRUE
  /\ events' = [Drop(events, DrainedRuns, <<>>) EXCEPT
                  ![g] = <<RunStartedEvent(ThreadId(g), RunId(g))>>]
  /\ pc' = [h \in Gens |-> IF h = g THEN "yRunStarted"
                            ELSE IF h \in DrainedRuns THEN "doneForgotten"
                            ELSE pc[h]]
  /\ DropRecords(DrainedRuns)
  /\ UNCHANGED config

\* line 48: llmClient.getToolCalls(prompt) is called (llm-client.js:47-53);
\* the remote strategy sends the completion request, the local one runs
\* getToolCallsFromKeywords up to its timer
CallResolver(g) ==
  /\ pc[g] = "yRunStarted"
  /\ resolveLog' = [resolveLog EXCEPT ![g] = @ + 1]
  /\ Goto(g, IF RemoteActive THEN "aFetchTools" ELSE "aKeywords")
  /\ UNCHANGED <<isProcessing, config, prompt, events, locals, execLog>>

\* getToolCallsFromOpenAI, lines 89-124: the service answers with tool
\* calls that parse
FetchToolsOk(g, reply) ==
  /\ pc[g] = "aFetchTools"
  /\ ~ExtractThrows(reply)
  /\ toolCalls' = [toolCalls EXCEPT ![g] = ExtractCalls(reply)]
  /\ ContinueLoop(g, ExtractCalls(reply), 1)
  /\ UNCHANGED <<isProcessing, config, prompt, executedTools, held, words,
                 widx, execLog, resolveLog>>

\* getToolCallsFromOpenAI, lines 126-131: the call fails (transport error,
\* non-success status, unparseable body, unparseable arguments of a tool
\* call) and falls back to getToolCallsFromKeywords
FetchToolsFail(g, why) ==
  /\ pc[g] = "aFetchTools"
  /\ why = "bad_arguments" => \E reply \in RemoteReplies : ExtractThrows(reply)
  /\ Goto(g, "aKeywords")
  /\ UNCHANGED <<isProcessing, config, prompt, events, locals, execLog,
                 resolveLog>>

\* getToolCallsFromKeywords returns, lines 143-198, and the loop starts
KeywordsOk(g) ==
  /\ pc[g] = "aKeywords"
  /\ ~KeywordsThrows(prompt[g])
  /\ toolCalls' = [toolCalls EXCEPT ![g] = getToolCallsFromKeywords(prompt[g].s)]
  /\ ContinueLoop(g, getToolCallsFromKeywords(prompt[g].s), 1)
  /\ UNCHANGED <<isProcessing, config, prompt, executedTools, held, words,
                 widx, execLog, resolveLog>>

\* getToolCallsFromKeywords throws, line 143; the outer catch takes it
KeywordsThrow(g) ==
  /\ pc[g] = "aKeywords"
  /\ KeywordsThrows(prompt[g])
  /\ CatchProcessingError(g, KeywordsErrorMessage)
  /\ UNCHANGED <<isProcessing, config, prompt, locals, execLog,
                 resolveLog>>

\* next() after TOOL_CALL_START, lines 61-67
AfterToolStart(g) ==
  /\ pc[g] = "yToolStart"
  /\ LET call == toolCalls[g][idx[g]]
     IN IF Truthy(call.args) /\ NumKeys(call.args) > 0
        THEN /\ Emit(g, ToolCallArgsEvent(ToolCallId(g, idx[g]),
                                          JSONstringify(call.args)))
             /\ Goto(g, "yToolArgs")
             /\ UNCHANGED execLog
        ELSE /\ InvokeTool(g, idx[g])
             /\ UNCHANGED events
  /\ UNCHANGED <<isProcessing, config, prompt, locals, resolveLog>>

\* next() after TOOL_CALL_ARGS, line 67
AfterToolArgs(g) ==
  /\ pc[g] = "yToolArgs"
  /\ InvokeTool(g, idx[g])
  /\ UNCHANGED <<isProcessing, config, prompt, events, locals, resolveLog>>

\* the executable resolves, lines 67-69
ToolResolves(g, result) ==
  /\ pc[g] = "aTool"
  /\ held' = [held EXCEPT ![g] = result]
  /\ Emit(g, ToolCallEndEvent(ToolCallId(g, idx[g])))
  /\ Goto(g, "yToolEnd")
  /\ Settle(g, "returned")
  /\ UNCHANGED <<isProcessing, config, prompt, toolCalls, idx, executedTools,
                 words, widx, resolveLog>>

\* the inner catch, lines 74-76: TOOL_CALL_END of the failure path
CatchToolError(g, message) ==
  /\ held' = [held EXCEPT ![g] = JStr(message)]
  /\ Emit(g, ToolCallEndEvent(ToolCallId(g, idx[g])))
  /\ Goto(g, "yToolEndErr")

\* ToolRejects, had the loop no try statement of its own: the outer catch
\* would take the rejection
ToolRejects_Escapes(g) ==
  /\ pc[g] = "aTool"
  /\ CatchProcessingError(g, ToolErrorMessage)
  /\ Settle(g, "threw")
  /\ UNCHANGED <<isProcessing, config, prompt, toolCalls, idx, executedTools,
                 held, words, widx, resolveLog>>

\* the executable rejects, lines 67, 74-76
ToolRejects(g) ==
  /\ pc[g] = "aTool"
  /\ CatchToolError(g, ToolErrorMessage)
  /\ Settle(g, "threw")
  /\ UNCHANGED <<isProcessing, config, prompt, toolCalls, idx, executedTools,
                 words, widx, resolveLog>>

\* next() after TOOL_CALL_END, line 70: JSON.stringify(result) is evaluated
\* inside the try; when it throws, the inner catch runs
AfterToolEnd(g) ==
  /\ pc[g] = "yToolEnd"
  /\ IF Serializable(held[g])
     THEN /\ Emit(g, ToolCallResultEvent(MessageId(g, idx[g]),
                                         ToolCallId(g, idx[g]),
                                         JSONstringify(held[g])))
          /\ Goto(g, "yToolResult")
          /\ UNCHANGED held
     ELSE CatchToolError(g, "Converting circular structure to JSON")
  /\ UNCHANGED <<isProcessing, config, prompt, toolCalls, idx, executedTools,
                 words, widx, execLog, resolveLog>>

\* next() after the TOOL_CALL_RESULT of a success, line 72, and on with the loop
AfterToolResult(g) ==
  /\ pc[g] = "yToolResult"
  /\ executedTools' = [executedTools EXCEPT
                         ![g] = Append(@, toolCalls[g][idx[g]])]
  /\ ContinueLoop(g, toolCalls[g], idx[g] + 1)
  /\ UNCHANGED <<isProcessing, config, prompt, toolCalls, held, words, widx,
                 execLog, resolveLog>>

\* next() after the TOOL_CALL_END of a failure, lines 77-80
AfterToolEndErr(g) ==
  /\ pc[g] = "yToolEndErr"
  /\ Emit(g, ToolCallResultEvent(MessageId(g, idx[g]), ToolCallId(g, idx[g]),
                                 FailurePayload(held[g].s)))
  /\ Goto(g, "yToolResultErr")
  /\ UNCHANGED <<isProcessing, config, prompt, locals, execLog,
                 resolveLog>>

\* a loop that counts a failed request among the executed tools
AfterToolResultErr_Counts(g) ==
  /\ pc[g] = "yToolResultErr"
  /\ executedTools' = [executedTools EXCEPT
                         ![g] = Append(@, toolCalls[g][idx[g]])]
  /\ ContinueLoop(g, toolCalls[g], idx[g] + 1)
  /\ UNCHANGED <<isProcessing, config, prompt, toolCalls, held,
                 words, widx, execLog, resolveLog>>

\* next() after the TOOL_CALL_RESULT of a failure: on with the loop
AfterToolResultErr(g) ==
  /\ pc[g] = "yToolResultErr"
  /\ ContinueLoop(g, toolCalls[g], idx[g] + 1)
  /\ UNCHANGED <<isProcessing, config, prompt, toolCalls, executedTools, held,
                 words, widx, execLog, resolveLog>>

\* StreamWords, had the chunks been given the id of the run's first message
StreamWords_OtherId(g, response) ==
  /\ words' = [words EXCEPT ![g] = split(response)]
  /\ widx' = [widx EXCEPT ![g] = 1]
  /\ Emit(g, TextMessageContentEvent(MessageId(g, 1), split(response)[1]))
  /\ Goto(g, "yChunk")

\* streamResponse, lines 134-137: the first chunk of the response
StreamWords(g, response) ==
  /\ words' = [words EXCEPT ![g] = split(response)]
  /\ widx' = [widx EXCEPT ![g] = 1]
  /\ Emit(g, TextMessageContentEvent(ResponseMessageId(g), split(response)[1]))
  /\ Goto(g, "yChunk")

\* AfterTextStart, had the phrasing call gathered its context by executing
\* the tools again
AfterTextStart_Reexecutes(g) ==
  /\ pc[g] = "yTextStart"
  /\ IF Len(executedTools[g]) > 0
     THEN IF useRealLLM
          THEN /\ Goto(g, IF ~useRealLLM \/ ~Truthy(apiKey)
                          THEN "aPhraseLocal" ELSE "aPhraseFetch")
               /\ execLog' = [execLog EXCEPT ![g] = @ \o @]
               /\ UNCHANGED events
          ELSE /\ Emit(g, TextMessageContentEvent(
                            ResponseMessageId(g),
                            generateSimpleResponse(executedTools[g])))
               /\ Goto(g, "yContent")
               /\ UNCHANGED execLog
     ELSE /\ Emit(g, TextMessageContentEvent(
                       ResponseMessageId(g),
                       generateNoToolsResponse(prompt[g])))
          /\ Goto(g, "yContent")
          /\ UNCHANGED execLog
  /\ UNCHANGED <<isProcessing, config, prompt, locals, resolveLog>>

\* next() after TEXT_MESSAGE_START, lines 124-150
AfterTextStart(g) ==
  /\ pc[g] = "yTextStart"
  /\ IF Len(executedTools[g]) > 0
     THEN IF useRealLLM
          THEN \* llmClient.generateIntelligentResponse is called
               \* (llm-client.js:298-332)
               /\ Goto(g, IF ~useRealLLM \/ ~Truthy(apiKey)
                          THEN "aPhraseLocal" ELSE "aPhraseFetch")
               /\ UNCHANGED events
          ELSE /\ Emit(g, TextMessageContentEvent(
                            ResponseMessageId(g),
                            generateSimpleResponse(executedTools[g])))
               /\ Goto(g, "yContent")
     ELSE /\ Emit(g, TextMessageContentEvent(
                       ResponseMessageId(g),
                       generateNoToolsResponse(prompt[g])))
          /\ Goto(g, "yContent")
  /\ UNCHANGED <<isProcessing, config, prompt, locals, execLog,
                 resolveLog>>

\* generateIntelligentResponse returned the templated sentence without a
\* remote call (llm-client.js:299-301); streaming starts, lines 134-137
PhraseLocal(g) ==
  /\ pc[g] = "aPhraseLocal"
  /\ StreamWords(g, LLMSimpleResponse(executedTools[g]))
  /\ UNCHANGED <<isProcessing, config, prompt, toolCalls, idx, executedTools,
                 held, execLog, resolveLog>>

\* the phrasing call answers (llm-client.js:334-336) with a string content:
\* streaming starts; with a null content response.split throws and the
\* catch of streamResponse emits the error text (lines 152-155)
PhraseOk(g, content) ==
  /\ pc[g] = "aPhraseFetch"
  /\ IF content.t = "str"
     THEN StreamWords(g, content.s)
     ELSE /\ Emit(g, TextMessageContentEvent(ResponseMessageId(g),
                                             ResponseErrorText))
          /\ Goto(g, "yContent")
          /\ UNCHANGED <<words, widx>>
  /\ UNCHANGED <<isProcessing, config, prompt, toolCalls, idx, executedTools,
                 held, execLog, resolveLog>>

\* PhraseFail, had generateIntelligentResponse no catch of its own: the
\* catch of streamResponse answers with the error text
PhraseFail_Escapes(g) ==
  /\ pc[g] = "aPhraseFetch"
  /\ Emit(g, TextMessageContentEvent(ResponseMessageId(g), ResponseErrorText))
  /\ Goto(g, "yContent")
  /\ UNCHANGED <<isProcessing, config, prompt, locals, execLog, resolveLog>>

\* the phrasing call fails (llm-client.js:337-343): the templated sentence
PhraseFail(g) ==
  /\ pc[g] = "aPhraseFetch"
  /\ StreamWords(g, LLMSimpleResponse(executedTools[g]))
  /\ UNCHANGED <<isProcessing, config, prompt, toolCalls, idx, executedTools,
                 held, execLog, resolveLog>>

\* next() after a streamed chunk, line 139: the pacing timer is started
AfterChunk(g) ==
  /\ pc[g] = "yChunk"
  /\ Goto(g, "aChunkDelay")
  /\ UNCHANGED <<isProcessing, config, prompt, events, locals, execLog,
                 resolveLog>>

\* the pacing timer fires, lines 135-137 and 159
ChunkDelayDone(g) ==
  /\ pc[g] = "aChunkDelay"
  /\ IF widx[g] < Len(words[g])
     THEN /\ widx' = [widx EXCEPT ![g] = @ + 1]
          /\ Emit(g, TextMessageContentEvent(ResponseMessageId(g),
                                             " " \o words[g][widx[g] + 1]))
          /\ Goto(g, "yChunk")
     ELSE /\ Emit(g, TextMessageEndEvent(ResponseMessageId(g)))
          /\ Goto(g, "yTextEnd")
          /\ UNCHANGED widx
  /\ UNCHANGED <<isProcessing, config, prompt, toolCalls, idx, executedTools,
                 held, words, execLog, resolveLog>>

\* next() after a whole-text TEXT_MESSAGE_CONTENT, line 159
AfterContent(g) ==
  /\ pc[g] = "yContent"
  /\ Emit(g, TextMessageEndEvent(ResponseMessageId(g)))
  /\ Goto(g, "yTextEnd")
  /\ UNCHANGED <<isProcessing, config, prompt, locals, execLog,
                 resolveLog>>

\* AfterTextEnd, had the generator returned after the text message without
\* the finishing event
AfterTextEnd_Returns(g) ==
  /\ pc[g] = "yTextEnd"
  /\ isProcessing' = FALSE
  /\ Goto(g, "done")
  /\ UNCHANGED <<config, prompt, events, locals, execLog, resolveLog>>

\* next() after TEXT_MESSAGE_END, line 91
AfterTextEnd(g) ==
  /\ pc[g] = "yTextEnd"
  /\ Emit(g, RunFinishedEvent(ThreadId(g), RunId(g), "completed"))
  /\ Goto(g, "yRunFinished")
  /\ UNCHANGED <<isProcessing, config, prompt, locals, execLog,
                 resolveLog>>

\* AfterRunError, had RUN_FINISHED been emitted on the success path only
AfterRunError_NoFinish(g) ==
  /\ pc[g] = "yRunError"
  /\ isProcessing' = FALSE
  /\ Goto(g, "done")
  /\ UNCHANGED <<config, prompt, events, locals, execLog, resolveLog>>

\* AfterRunError, had the finishing event after an error reported 'completed'
AfterRunError_Completed(g) ==
  /\ pc[g] = "yRunError"
  /\ Emit(g, RunFinishedEvent(ThreadId(g), RunId(g), "completed"))
  /\ Goto(g, "yRunFinished")
  /\ UNCHANGED <<isProcessing, config, prompt, locals, execLog,
                 resolveLog>>

\* next() after RUN_ERROR, line 104
AfterRunError(g) ==
  /\ pc[g] = "yRunError"
  /\ Emit(g, RunFinishedEvent(ThreadId(g), RunId(g), "error"))
  /\ Goto(g, "yRunFinished")
  /\ UNCHANGED <<isProcessing, config, prompt, locals, execLog,
                 resolveLog>>

\* Finally, had the flag not been reset
Finally_Keeps(g) == isProcessing' = isProcessing

\* the finally block, lines 105-107
Finally(g) == isProcessing' = FALSE

\* next() after RUN_FINISHED: the finally block runs and the generator
\* completes (the consumer is told done)
AfterRunFinished(g) ==
  /\ pc[g] = "yRunFinished"
  /\ Finally(g)
  /\ Goto(g, "done")
  /\ UNCHANGED <<config, prompt, events, locals, execLog,
                 resolveLog>>

\* the labels at which the generator is parked on a yield inside the
\* try statement of lines 43-107
InTryYields ==
  {"yRunStarted", "yToolStart", "yToolArgs", "yToolEnd", "yToolResult",
   "yToolEndErr", "yToolResultErr", "yTextStart", "yChunk", "yContent",
   "yTextEnd", "yRunError", "yRunFinished"}

\* the consumer leaves its for-await loop early (break, or an exception in
\* its body: main.js:171-173): return() resumes the generator at its yield
\* with a return completion, and the finally block runs
ConsumerReturn(g) ==
  /\ pc[g] \in InTryYields
  /\ Finally(g)
  /\ Goto(g, "closed")
  /\ events' = Drop(events, {g}, <<>>)
  /\ DropRecords({g})
  /\ UNCHANGED config

\* the consumer, having driven the generator with next(), requests nothing
\* more and does not close it: the generator stays parked at its yield,
\* inside the try statement, for ever
ConsumerAbandon(g) ==
  /\ pc[g] \in InTryYields
  /\ Goto(g, "abandoned")
  /\ events' = Drop(events, {g}, <<>>)
  /\ DropRecords({g})
  /\ UNCHANGED <<isProcessing, config>>

(***************************************************************************)
(* The starter-kit specification.                                          *)
(***************************************************************************)
\* The registration order of YourApp.registerWithWebMCP
\* (agent-client.js:527-619), handed to the AgentClient at main.js:37
StarterTools == <<"getAppData", "refreshData", "analyzeData", "generateReport">>

\* The data of YourApp as constructed (agent-client.js:334-339)
YourAppData == [data |-> <<>>, currentView |-> "default", lastUpdate |-> JNull]

\* The state after construction (agent-client.js:17-21, llm-client.js:16-21)
\* and after the saved key, if any, was applied (main.js:52-56)
Init ==
  /\ isProcessing = FALSE
  /\ \/ useRealLLM = FALSE /\ apiKey = JNull
     \/ useRealLLM = TRUE /\ apiKey \in ApiKeys
  /\ tools = StarterTools
  /\ app = YourAppData
  /\ pc = [g \in Gens |-> "unborn"]
  /\ prompt = [g \in Gens |-> JUndefined]
  /\ events = [g \in Gens |-> <<>>]
  /\ toolCalls = [g \in Gens |-> <<>>]
  /\ idx = [g \in Gens |-> 0]
  /\ executedTools = [g \in Gens |-> <<>>]
  /\ held = [g \in Gens |-> JUndefined]
  /\ words = [g \in Gens |-> <<>>]
  /\ widx = [g \in Gens |-> 0]
  /\ execLog = [g \in Gens |-> <<>>]
  /\ resolveLog = [g \in Gens |-> 0]

Next ==
  \E g \in Gens :
    \/ \E p \in Prompts : Call(g, p)
    \/ BusyReject(g)
    \/ BusyReturn(g)
    \/ Accept(g)
    \/ CallResolver(g)
    \/ \E reply \in RemoteReplies : FetchToolsOk(g, reply)
    \/ \E why \in FetchFailures : FetchToolsFail(g, why)
    \/ KeywordsOk(g)
    \/ KeywordsThrow(g)
    \/ AfterToolStart(g)
    \/ AfterToolArgs(g)
    \/ ToolResolves(g, ToolResultOk)
    \/ ToolResolves(g, JCircular)
    \/ ToolRejects(g)
    \/ AfterToolEnd(g)
    \/ AfterToolResult(g)
    \/ AfterToolEndErr(g)
    \/ AfterToolResultErr(g)
    \/ AfterTextStart(g)
    \/ PhraseLocal(g)
    \/ \E content \in RemoteContents : PhraseOk(g, content)
    \/ PhraseFail(g)
    \/ AfterChunk(g)
    \/ ChunkDelayDone(g)
    \/ AfterContent(g)
    \/ AfterTextEnd(g)
    \/ AfterRunError(g)
    \/ AfterRunFinished(g)
    \/ ConsumerReturn(g)
    \/ ConsumerAbandon(g)

Spec == Init /\ [][Next]_vars

(***************************************************************************)
(* The Fidelity application (js/fidelity-app.js): its data and the         *)
(* executables of the three tools it registers.  An executable is an async *)
(* function without an await: its body runs when it is called, and the     *)
(* promise it returns settles afterwards.                                  *)
(***************************************************************************)
\* constructor, lines 4-10
FidelityAppData ==
  [portfolio |-> [stocks |-> 50, bonds |-> 30, cash |-> 20],
   portfolioHistory |-> <<>>,
   retirementProjection |-> JNull]

AllocationObj(p) ==
  JObj(<< <<"stocks", JNum(p.stocks)>>, <<"bonds", JNum(p.bonds)>>,
          <<"cash", JNum(p.cash)>> >>)

\* calculateTotalValue, lines 155-158
calculateTotalValue(a) ==
  125000 + (a.portfolio.stocks * 1000) + (a.portfolio.bonds * 500)

\* getRiskLevel, had the thresholds been exclusive
getRiskLevel_Above(a) ==
  IF a.portfolio.stocks > 70 THEN "Aggressive"
  ELSE IF a.portfolio.stocks > 50 THEN "Moderate"
  ELSE "Conservative"

\* getRiskLevel, lines 160-164
getRiskLevel(a) ==
  IF a.portfolio.stocks >= 70 THEN "Aggressive"
  ELSE IF a.portfolio.stocks >= 50 THEN "Moderate"
  ELSE "Conservative"

\* addToHistory, lines 166-171 (the time of day is left out)
addToHistory(a, action) ==
  [a EXCEPT !.portfolioHistory = Append(@, action)]

\* reading a property of v throws when v is undefined or null
CanRead(v) == v.t \notin {"undefined", "null"}

\* v[key]
Get(v, key) ==
  IF v.t = "obj" /\ \E i \in 1..Len(v.f) : v.f[i][1] = key
  THEN v.f[CHOOSE i \in 1..Len(v.f) : v.f[i][1] = key][2]
  ELSE JUndefined

\* String(v), as a template literal renders a value
JSString(v) ==
  CASE v.t = "str" -> v.s
    [] v.t = "undefined" -> "undefined"
    [] v.t = "obj" -> "[object Object]"
    [] OTHER -> JSONstringify(v)

ReadErrorMessage(v, key) ==
  "Cannot read properties of " \o JSString(v) \o " (reading '" \o key \o "')"

\* what calling an executable gives: how its promise will settle, and the
\* application data its body leaves
Returned(value, a) == [threw |-> FALSE, value |-> value, app |-> a]
Threw(message, a) == [threw |-> TRUE, value |-> JStr(message), app |-> a]

\* the executable of getPortfolio, lines 179-186 (the clock reading of
\* lastUpdated is one fixed string)
getPortfolio(a) ==
  Returned(JObj(<< <<"allocation", AllocationObj(a.portfolio)>>,
                   <<"totalValue", JNum(calculateTotalValue(a))>>,
                   <<"riskLevel", JStr(getRiskLevel(a))>>,
                   <<"lastUpdated", JStr("now")>> >>), a)

\* rebalancePortfolio, had the result been built from the allocation read
\* before the new one is stored
rebalancePortfolio_Stale(args, a) ==
  IF ~CanRead(args) THEN Threw(ReadErrorMessage(args, "strategy"), a)
  ELSE
    LET strategy == Get(args, "strategy")
        new == IF strategy = JStr("aggressive")
               THEN [stocks |-> 70, bonds |-> 20, cash |-> 10]
               ELSE IF strategy = JStr("moderate")
               THEN [stocks |-> 60, bonds |-> 30, cash |-> 10]
               ELSE [stocks |-> 40, bonds |-> 40, cash |-> 20]
        b == addToHistory([a EXCEPT !.portfolio = new],
                          "Rebalanced to " \o JSString(strategy) \o " strategy")
    IN Returned(JObj(<< <<"oldAllocation", AllocationObj(a.portfolio)>>,
                        <<"newAllocation", AllocationObj(a.portfolio)>>,
                        <<"strategy", strategy>>,
                        <<"totalValue", JNum(calculateTotalValue(b))>>,
                        <<"riskLevel", JStr(getRiskLevel(b))>> >>), b)

\* the executable of rebalancePortfolio, lines 192-213
rebalancePortfolio(args, a) ==
  IF ~CanRead(args) THEN Threw(ReadErrorMessage(args, "strategy"), a)
  ELSE
    LET strategy == Get(args, "strategy")
        new == IF strategy = JStr("aggressive")
               THEN [stocks |-> 70, bonds |-> 20, cash |-> 10]
               ELSE IF strategy = JStr("moderate")
               THEN [stocks |-> 60, bonds |-> 30, cash |-> 10]
               ELSE [stocks |-> 40, bonds |-> 40, cash |-> 20]
        b == addToHistory([a EXCEPT !.portfolio = new],
                          "Rebalanced to " \o JSString(strategy) \o " strategy")
    IN Returned(JObj(<< <<"oldAllocation", AllocationObj(a.portfolio)>>,
                        <<"newAllocation", AllocationObj(new)>>,
                        <<"strategy", strategy>>,
                        <<"totalValue", JNum(calculateTotalValue(b))>>,
                        <<"riskLevel", JStr(getRiskLevel(b))>> >>), b)

\* the executable of getRetirementProjection, lines 219-244, for arguments
\* whose members, if any, are numbers.  The compound growth (Math.pow on
\* floating-point numbers) is not evaluated.
getRetirementProjection(args, a) ==
  IF ~CanRead(args) THEN Threw(ReadErrorMessage(args, "yearsToRetirement"), a)
  ELSE
    LET y == Get(args, "yearsToRetirement")
        m == Get(args, "monthlyContribution")
        yearsToRetirement == IF Truthy(y) THEN y.n ELSE 20
        monthlyContribution == IF Truthy(m) THEN m.n ELSE 500
        currentValue == calculateTotalValue(a)
        rate == a.portfolio.stocks * 7 + a.portfolio.bonds * 4
                  + a.portfolio.cash * 2
        contributionsValue == monthlyContribution * 12 * yearsToRetirement
        projectionData ==
          JObj(<< <<"currentValue", JNum(currentValue)>>,
                  <<"projectedValue",
                    JExpr("Math.round(" \o ToString(currentValue)
                            \o " * Math.pow(1 + " \o ToString(rate)
                            \o " / 10000, " \o ToString(yearsToRetirement)
                            \o ") + " \o ToString(contributionsValue) \o ")")>>,
                  <<"yearsToRetirement", JNum(yearsToRetirement)>>,
                  <<"monthlyContribution", JNum(monthlyContribution)>>,
                  <<"projectedGrowthRate", JDec(rate)>>,
                  <<"totalContributions", JNum(contributionsValue)>> >>)
        b == addToHistory([a EXCEPT !.retirementProjection = projectionData],
                          "Generated " \o ToString(yearsToRetirement)
                            \o "-year retirement projection")
    IN Returned(projectionData, b)

\* registerWithWebMCP, lines 174-247: the registration order
DemoTools == <<"getPortfolio", "rebalancePortfolio", "getRetirementProjection">>

\* tool.execute(args) for the tool of that name
Execute(name, args, a) ==
  CASE name = "getPortfolio" -> getPortfolio(a)
    [] name = "rebalancePortfolio" -> rebalancePortfolio(args, a)
    [] name = "getRetirementProjection" -> getRetirementProjection(args, a)

(***************************************************************************)
(* Demo LLMClient (js/webmcp-provider.js:67-268).                          *)
(***************************************************************************)
Digits == "0123456789"
IsDigit(c) == \E i \in 1..Len(Digits) : CharAt(Digits, i) = c
DigitVal(c) == (CHOOSE i \in 1..Len(Digits) : CharAt(Digits, i) = c) - 1
IsSpace(c) == c \in {" ", "\t", "\n"}

RECURSIVE parseInt(_)
\* parseInt of a string of decimal digits
parseInt(d) ==
  IF Len(d) = 0 THEN 0
  ELSE parseInt(SubSeq(d, 1, Len(d) - 1)) * 10 + DigitVal(CharAt(d, Len(d)))

StartsAt(s, i, kw) ==
  i + Len(kw) - 1 <= Len(s) /\ SubSeq(s, i, i + Len(kw) - 1) = kw

\* the matches of /(\d+)\s*(?:w1|w2|...)/ in s: <<p, e>> where s[p..e] is a
\* run of digits that ends at e, followed by white space and then one of ws
NumberMatches(s, ws) ==
  {pe \in (1..Len(s)) \X (1..Len(s)) :
     /\ pe[1] <= pe[2]
     /\ \A i \in pe[1]..pe[2] : IsDigit(CharAt(s, i))
     /\ \E k \in (pe[2] + 1)..Len(s) :
          /\ \A i \in (pe[2] + 1)..(k - 1) : IsSpace(CharAt(s, i))
          /\ \E w \in ws : StartsAt(s, k, w)}

\* the first capture group of the leftmost match: the digits
FirstNumber(s, ws) ==
  LET M == NumberMatches(s, ws)
      p == CHOOSE q \in {pe[1] : pe \in M} : \A pe \in M : q <= pe[1]
      e == CHOOSE r \in {pe[2] : pe \in M} : \A pe \in M : pe[2] <= r
  IN SubSeq(s, p, e)

\* /a.?b/ tests true on s: a, at most one character that is not a line
\* terminator, b
MatchesOptAny(s, a, b) ==
  \E i \in 1..Len(s) :
    /\ StartsAt(s, i, a)
    /\ \/ StartsAt(s, i + Len(a), b)
       \/ /\ i + Len(a) <= Len(s)
          /\ CharAt(s, i + Len(a)) # "\n"
          /\ StartsAt(s, i + Len(a) + 1, b)

\* getToolCallsFromKeywords, lines 197-267, on a string.  A request pushed
\* without args has args undefined.  The case-insensitive patterns of lines
\* 253-257 are tested on the lower-cased prompt.
DemoGetToolCallsFromKeywords(s) ==
  LET lowerPrompt == toLowerCase(s)
      has(kw) == includes(lowerPrompt, kw)
      rebalance(strategy) ==
        ToolCall("rebalancePortfolio", JObj(<< <<"strategy", JStr(strategy)>> >>))
      r1 == IF has("show") /\ (has("portfolio") \/ has("allocation"))
            THEN <<ToolCall("getPortfolio", JUndefined)>> ELSE <<>>
      r2 == IF has("diversify") \/ has("rebalance")
            THEN <<ToolCall("getPortfolio", JUndefined),
                   rebalance(IF has("aggressive") \/ has("risky") \/ has("growth")
                             THEN "aggressive"
                             ELSE IF has("conservative") \/ has("safe")
                                     \/ has("stable")
                             THEN "conservative"
                             ELSE "moderate")>>
            ELSE <<>>
      r3 == IF has("make it more aggressive") \/ has("increase risk")
            THEN <<rebalance("aggressive")>> ELSE <<>>
      r4 == IF has("make it conservative") \/ has("reduce risk")
            THEN <<rebalance("conservative")>> ELSE <<>>
      years == IF NumberMatches(lowerPrompt, {"year"}) # {}
               THEN << <<"yearsToRetirement",
                         JNum(parseInt(FirstNumber(lowerPrompt, {"year"})))>> >>
               ELSE <<>>
      monthly == IF NumberMatches(lowerPrompt, {"per month", "monthly"}) # {}
                 THEN << <<"monthlyContribution",
                           JNum(parseInt(FirstNumber(lowerPrompt,
                                                     {"per month", "monthly"})))>> >>
                 ELSE <<>>
      r5 == IF has("retirement")
               /\ (has("projection") \/ has("plan") \/ has("future"))
            THEN <<ToolCall("getRetirementProjection", JObj(years \o monthly))>>
            ELSE <<>>
      r6 == IF (has("analyze") \/ has("review")) /\ has("portfolio")
            THEN <<ToolCall("getPortfolio", JUndefined)>> ELSE <<>>
      verb == has("set") \/ has("change") \/ has("switch")
      aggressive == has("aggressive") \/ has("growth") \/ has("risky")
                      \/ MatchesOptAny(lowerPrompt, "high", "risk")
      moderate == has("moderate") \/ has("balanced")
                    \/ MatchesOptAny(lowerPrompt, "medium", "risk")
      conservative == has("conservative") \/ has("safe")
                        \/ MatchesOptAny(lowerPrompt, "low", "risk")
                        \/ has("stable")
      r7 == IF aggressive /\ verb THEN <<rebalance("aggressive")>>
            ELSE IF moderate /\ verb THEN <<rebalance("moderate")>>
            ELSE IF conservative /\ verb THEN <<rebalance("conservative")>>
            ELSE <<>>
  IN r1 \o r2 \o r3 \o r4 \o r5 \o r6 \o r7

(***************************************************************************)
(* Demo AgentClient (unnamed/part_003:356-497): processPrompt and          *)
(* generateIntelligentResponse, one action per stretch of code between two *)
(* suspension points.  It keeps no busy flag.                              *)
(***************************************************************************)
\* The prompts handed to the demo processPrompt
DemoPrompts ==
  {JStr("show my portfolio"), JStr("Rebalance to aggressive"), JUndefined}

\* The tool_calls entries the completion service may return
DemoRemoteToolCallPool ==
  { [type |-> "function", name |-> "rebalancePortfolio",
     arguments |-> "{\"strategy\":\"aggressive\"}"],
    [type |-> "function", name |-> "getRetirementProjection",
     arguments |-> "null"] }

DemoRemoteReplies ==
  UNION {[1..n -> DemoRemoteToolCallPool] : n \in 0..MaxCalls}

DemoNoToolsText ==
  "I understand your request, but I don't have the specific tools needed to help with that right now."
DemoFallbackText == "I've completed your request successfully."

\* DemoSimpleResponse, had the sentence not listed the tools
DemoSimpleResponse_Unnamed(calls) ==
  "I've executed " \o ToString(Len(calls))
    \o " tools for you. The results are displayed in your portfolio above."

\* line 413
DemoSimpleResponse(calls) ==
  "I've executed the following tools for you: " \o join(CallNames(calls), ", ")
    \o ". The results are displayed in your portfolio above."

\* the object yielded at lines 429-433
DemoRunError(message) ==
  [type |-> "RUN_ERROR", message |-> message, code |-> "EXECUTION_ERROR"]

\* the catch of lines 427-434
DemoCatch(g, message) ==
  /\ Emit(g, DemoRunError(message))
  /\ Goto(g, "yRunError")

\* the for..of loop from request i on (lines 374-381), and past it the start
\* of the text message (lines 395-397, 420-422)
DemoContinueLoop(g, calls, i) ==
  LET j == NextFound(calls, i)
  IN IF j # 0
     THEN /\ idx' = [idx EXCEPT ![g] = j]
          /\ Emit(g, ToolCallStartEvent(ToolCallId(g, j), calls[j].name,
                                        MessageId(g, j)))
          /\ Goto(g, "yToolStart")
     ELSE /\ idx' = [idx EXCEPT ![g] = Len(calls) + 1]
          /\ IF Len(calls) > 0
             THEN /\ Emit(g, TextMessageStartEvent(ResponseMessageId(g),
                                                   "assistant"))
                  /\ Goto(g, "yTextStart")
             ELSE /\ Emit(g, TextMessageStartEvent(MessageId(g, 0),
                                                   "assistant"))
                  /\ Goto(g, "yTextStartNone")

\* tool.execute(call.args) is called for request i (line 387 by
\* processPrompt, line 447 by generateIntelligentResponse): the body of the
\* executable runs; log is the record of the invocations made so far
DemoInvoke(g, i, by, log) ==
  LET call == toolCalls[g][i]
      r == Execute(call.name, call.args, app)
  IN /\ app' = r.app
     /\ held' = [held EXCEPT ![g] = [threw |-> r.threw, value |-> r.value]]
     /\ execLog' = [log EXCEPT
                      ![g] = Append(@, [idx |-> i, name |-> call.name,
                                        by |-> by, outcome |-> "pending"])]

\* the runs driven to completion
DemoDrainedRuns == {h \in Gens : pc[h] = "done"}

\* first next(), lines 363-367 (earlier output is cleared before each run,
\* part_003:92)
DemoStart(g) ==
  /\ pc[g] = "start"
  /\ events' = [Drop(events, DemoDrainedRuns, <<>>) EXCEPT
                  ![g] = <<RunStartedEvent(ThreadId(g), RunId(g))>>]
  /\ pc' = [h \in Gens |-> IF h = g THEN "yRunStarted"
                            ELSE IF h \in DemoDrainedRuns THEN "doneForgotten"
                            ELSE pc[h]]
  /\ DropRecords(DemoDrainedRuns)
  /\ UNCHANGED <<isProcessing, config>>

\* line 371: llmClient.getToolCalls(prompt) is called
\* (js/webmcp-provider.js:80-87)
DemoCallResolver(g) ==
  /\ pc[g] = "yRunStarted"
  /\ resolveLog' = [resolveLog EXCEPT ![g] = @ + 1]
  /\ Goto(g, IF RemoteActive THEN "aFetchTools" ELSE "aKeywords")
  /\ UNCHANGED <<isProcessing, config, prompt, events, locals, execLog>>

\* getToolCallsFromOpenAI, js/webmcp-provider.js:113-147: the service
\* answers with tool calls that parse
DemoFetchToolsOk(g, reply) ==
  /\ pc[g] = "aFetchTools"
  /\ ~ExtractThrows(reply)
  /\ toolCalls' = [toolCalls EXCEPT ![g] = ExtractCalls(reply)]
  /\ DemoContinueLoop(g, ExtractCalls(reply), 1)
  /\ UNCHANGED <<isProcessing, config, prompt, executedTools, held, words,
                 widx, execLog, resolveLog>>

\* getToolCallsFromOpenAI, js/webmcp-provider.js:149-153: the call fails and
\* falls back to getToolCallsFromKeywords
DemoFetchToolsFail(g, why) ==
  /\ pc[g] = "aFetchTools"
  /\ why = "bad_arguments" =>
       \E reply \in DemoRemoteReplies : ExtractThrows(reply)
  /\ Goto(g, "aKeywords")
  /\ UNCHANGED <<isProcessing, config, prompt, events, locals, execLog,
                 resolveLog>>

\* getToolCallsFromKeywords returns and the loop starts
DemoKeywordsOk(g) ==
  /\ pc[g] = "aKeywords"
  /\ ~KeywordsThrows(prompt[g])
  /\ toolCalls' = [toolCalls EXCEPT
                     ![g] = DemoGetToolCallsFromKeywords(prompt[g].s)]
  /\ DemoContinueLoop(g, DemoGetToolCallsFromKeywords(prompt[g].s), 1)
  /\ UNCHANGED <<isProcessing, config, prompt, executedTools, held, words,
                 widx, execLog, resolveLog>>

\* getToolCallsFromKeywords throws (js/webmcp-provider.js:200)
DemoKeywordsThrow(g) ==
  /\ pc[g] = "aKeywords"
  /\ KeywordsThrows(prompt[g])
  /\ DemoCatch(g, KeywordsErrorMessage)
  /\ UNCHANGED <<isProcessing, config, prompt, locals, execLog,
                 resolveLog>>

\* next() after TOOL_CALL_START, lines 383-387
DemoAfterToolStart(g) ==
  /\ pc[g] = "yToolStart"
  /\ IF Truthy(toolCalls[g][idx[g]].args)
     THEN /\ Emit(g, ToolCallArgsEvent(
                       ToolCallId(g, idx[g]),
                       JSONstringify(toolCalls[g][idx[g]].args)))
          /\ Goto(g, "yToolArgs")
          /\ UNCHANGED <<app, held, execLog>>
     ELSE /\ DemoInvoke(g, idx[g], "processPrompt", execLog)
          /\ Goto(g, "aTool")
          /\ UNCHANGED events
  /\ UNCHANGED <<isProcessing, useRealLLM, apiKey, tools, prompt, toolCalls,
                 idx, executedTools, words, widx, resolveLog>>

\* next() after TOOL_CALL_ARGS, line 387
DemoAfterToolArgs(g) ==
  /\ pc[g] = "yToolArgs"
  /\ DemoInvoke(g, idx[g], "processPrompt", execLog)
  /\ Goto(g, "aTool")
  /\ UNCHANGED <<isProcessing, useRealLLM, apiKey, tools, prompt, events,
                 toolCalls, idx, executedTools, words, widx, resolveLog>>

\* the executable resolves, lines 387-389
DemoToolResolves(g) ==
  /\ pc[g] = "aTool"
  /\ ~held[g].threw
  /\ execLog' = Settled(g, "returned")
  /\ Emit(g, ToolCallEndEvent(ToolCallId(g, idx[g])))
  /\ Goto(g, "yToolEnd")
  /\ UNCHANGED <<isProcessing, config, prompt, locals, resolveLog>>

\* the executable rejects, line 387: the catch of lines 427-434 takes it
DemoToolRejects(g) ==
  /\ pc[g] = "aTool"
  /\ held[g].threw
  /\ execLog' = Settled(g, "threw")
  /\ DemoCatch(g, held[g].value.s)
  /\ UNCHANGED <<isProcessing, config, prompt, locals, resolveLog>>

\* next() after TOOL_CALL_END, line 390
DemoAfterToolEnd(g) ==
  /\ pc[g] = "yToolEnd"
  /\ Emit(g, ToolCallResultEvent(MessageId(g, idx[g]), ToolCallId(g, idx[g]),
                                 JSONstringify(held[g].value)))
  /\ Goto(g, "yToolResult")
  /\ UNCHANGED <<isProcessing, config, prompt, locals, execLog,
                 resolveLog>>

\* next() after TOOL_CALL_RESULT: on with the loop
DemoAfterToolResult(g) ==
  /\ pc[g] = "yToolResult"
  /\ DemoContinueLoop(g, toolCalls[g], idx[g] + 1)
  /\ UNCHANGED <<isProcessing, config, prompt, toolCalls, executedTools, held,
                 words, widx, execLog, resolveLog>>

\* generateIntelligentResponse, lines 444-454 and 471: the for..of loop from
\* request i on executes the next request that names a tool; past the last
\* one the phrasing request is sent
DemoGatherFrom(g, i, log) ==
  LET j == NextFound(toolCalls[g], i)
  IN IF j # 0
     THEN /\ DemoInvoke(g, j, "generateIntelligentResponse", log)
          /\ idx' = [idx EXCEPT ![g] = j]
          /\ Goto(g, "aGather")
     ELSE /\ Goto(g, "aPhraseFetch")
          /\ execLog' = log
          /\ UNCHANGED <<app, held, idx>>

\* next() after the TEXT_MESSAGE_START of a run with requests, lines 399-413
DemoAfterTextStart(g) ==
  /\ pc[g] = "yTextStart"
  /\ IF useRealLLM
     THEN /\ DemoGatherFrom(g, 1, execLog)
          /\ UNCHANGED events
     ELSE /\ Emit(g, TextMessageContentEvent(ResponseMessageId(g),
                                             DemoSimpleResponse(toolCalls[g])))
          /\ Goto(g, "yContent")
          /\ UNCHANGED <<app, held, idx, execLog>>
  /\ UNCHANGED <<isProcessing, useRealLLM, apiKey, tools, prompt, toolCalls,
                 executedTools, words, widx, resolveLog>>

\* generateIntelligentResponse, line 447: the executable resolves and the
\* loop goes on.  (The executables reject on their arguments alone, and a run
\* in which one rejected has not come this far.)
DemoGatherResolves(g) ==
  /\ pc[g] = "aGather"
  /\ ~held[g].threw
  /\ DemoGatherFrom(g, idx[g] + 1, Settled(g, "returned"))
  /\ UNCHANGED <<isProcessing, useRealLLM, apiKey, tools, prompt, events,
                 toolCalls, executedTools, words, widx, resolveLog>>

\* lines 403-406: the first chunk of the response
DemoStreamWords(g, response) ==
  /\ words' = [words EXCEPT ![g] = split(response)]
  /\ widx' = [widx EXCEPT ![g] = 1]
  /\ Emit(g, TextMessageContentEvent(ResponseMessageId(g), split(response)[1]))
  /\ Goto(g, "yChunk")

\* the phrasing call answers, lines 489-490: an empty or missing content
\* gives the fixed sentence
DemoPhraseOk(g, content) ==
  /\ pc[g] = "aPhraseFetch"
  /\ DemoStreamWords(g, IF Truthy(content) THEN content.s
                        ELSE DemoFallbackText)
  /\ UNCHANGED <<isProcessing, config, prompt, toolCalls, idx, executedTools,
                 held, execLog, resolveLog>>

\* the phrasing call fails, lines 485-487 and 492-495
DemoPhraseFail(g) ==
  /\ pc[g] = "aPhraseFetch"
  /\ DemoStreamWords(g, DemoFallbackText)
  /\ UNCHANGED <<isProcessing, config, prompt, toolCalls, idx, executedTools,
                 held, execLog, resolveLog>>

\* next() after a streamed chunk, line 408: the pacing timer is started
DemoAfterChunk(g) ==
  /\ pc[g] = "yChunk"
  /\ Goto(g, "aChunkDelay")
  /\ UNCHANGED <<isProcessing, config, prompt, events, locals, execLog,
                 resolveLog>>

\* the pacing timer fires, lines 404-406 and 416
DemoChunkDelayDone(g) ==
  /\ pc[g] = "aChunkDelay"
  /\ IF widx[g] < Len(words[g])
     THEN /\ widx' = [widx EXCEPT ![g] = @ + 1]
          /\ Emit(g, TextMessageContentEvent(ResponseMessageId(g),
                                             " " \o words[g][widx[g] + 1]))
          /\ Goto(g, "yChunk")
     ELSE /\ Emit(g, TextMessageEndEvent(ResponseMessageId(g)))
          /\ Goto(g, "yTextEnd")
          /\ UNCHANGED widx
  /\ UNCHANGED <<isProcessing, config, prompt, toolCalls, idx, executedTools,
                 held, words, execLog, resolveLog>>

\* next() after the whole-text TEXT_MESSAGE_CONTENT, line 416
DemoAfterContent(g) ==
  /\ pc[g] = "yContent"
  /\ Emit(g, TextMessageEndEvent(ResponseMessageId(g)))
  /\ Goto(g, "yTextEnd")
  /\ UNCHANGED <<isProcessing, config, prompt, locals, execLog,
                 resolveLog>>

\* next() after the TEXT_MESSAGE_START of a run without requests, line 423
DemoAfterTextStartNone(g) ==
  /\ pc[g] = "yTextStartNone"
  /\ Emit(g, TextMessageContentEvent(MessageId(g, 0), DemoNoToolsText))
  /\ Goto(g, "yContentNone")
  /\ UNCHANGED <<isProcessing, config, prompt, locals, execLog,
                 resolveLog>>

\* DemoAfterContentNone, had the message been ended under the id of the
\* text message of a run with requests
DemoAfterContentNone_ResponseId(g) ==
  /\ pc[g] = "yContentNone"
  /\ Emit(g, TextMessageEndEvent(ResponseMessageId(g)))
  /\ Goto(g, "yTextEnd")
  /\ UNCHANGED <<isProcessing, config, prompt, locals, execLog,
                 resolveLog>>

\* next() after that TEXT_MESSAGE_CONTENT, line 424
DemoAfterContentNone(g) ==
  /\ pc[g] = "yContentNone"
  /\ Emit(g, TextMessageEndEvent(MessageId(g, 0)))
  /\ Goto(g, "yTextEnd")
  /\ UNCHANGED <<isProcessing, config, prompt, locals, execLog,
                 resolveLog>>

\* next() after TEXT_MESSAGE_END or after RUN_ERROR, line 437
DemoFinish(g) ==
  /\ pc[g] \in {"yTextEnd", "yRunError"}
  /\ Emit(g, RunFinishedEvent(ThreadId(g), RunId(g), "completed"))
  /\ Goto(g, "yRunFinished")
  /\ UNCHANGED <<isProcessing, config, prompt, locals, execLog,
                 resolveLog>>

\* next() after RUN_FINISHED: the generator completes
DemoAfterRunFinished(g) ==
  /\ pc[g] = "yRunFinished"
  /\ Goto(g, "done")
  /\ UNCHANGED <<isProcessing, config, prompt, events, locals, execLog,
                 resolveLog>>

(***************************************************************************)
(* The demo specification.                                                 *)
(***************************************************************************)
\* The state after construction (part_003:357-360, js/webmcp-provider.js:
\* 68-72, js/fidelity-app.js:2-13) and after a key, if any, was set
\* (js/webmcp-provider.js:75-78)
DemoInit ==
  /\ isProcessing = FALSE
  /\ \/ useRealLLM = FALSE /\ apiKey = JNull
     \/ useRealLLM = TRUE /\ apiKey \in ApiKeys
  /\ tools = DemoTools
  /\ app = FidelityAppData
  /\ pc = [g \in Gens |-> "unborn"]
  /\ prompt = [g \in Gens |-> JUndefined]
  /\ events = [g \in Gens |-> <<>>]
  /\ toolCalls = [g \in Gens |-> <<>>]
  /\ idx = [g \in Gens |-> 0]
  /\ executedTools = [g \in Gens |-> <<>>]
  /\ held = [g \in Gens |-> JUndefined]
  /\ words = [g \in Gens |-> <<>>]
  /\ widx = [g \in Gens |-> 0]
  /\ execLog = [g \in Gens |-> <<>>]
  /\ resolveLog = [g \in Gens |-> 0]

DemoNext ==
  \E g \in Gens :
    \/ \E p \in DemoPrompts : Call(g, p)
    \/ DemoStart(g)
    \/ DemoCallResolver(g)
    \/ \E reply \in DemoRemoteReplies : DemoFetchToolsOk(g, reply)
    \/ \E why \in FetchFailures : DemoFetchToolsFail(g, why)
    \/ DemoKeywordsOk(g)
    \/ DemoKeywordsThrow(g)
    \/ DemoAfterToolStart(g)
    \/ DemoAfterToolArgs(g)
    \/ DemoToolResolves(g)
    \/ DemoToolRejects(g)
    \/ DemoAfterToolEnd(g)
    \/ DemoAfterToolResult(g)
    \/ DemoAfterTextStart(g)
    \/ DemoGatherResolves(g)
    \/ \E content \in RemoteContents : DemoPhraseOk(g, content)
    \/ DemoPhraseFail(g)
    \/ DemoAfterChunk(g)
    \/ DemoChunkDelayDone(g)
    \/ DemoAfterContent(g)
    \/ DemoAfterTextStartNone(g)
    \/ DemoAfterContentNone(g)
    \/ DemoFinish(g)
    \/ DemoAfterRunFinished(g)

DemoSpec == DemoInit /\ [][DemoNext]_vars

(***************************************************************************)
(* Properties of the starter-kit AgentClient.                              *)
(***************************************************************************)
TypesOf(evs) == [i \in 1..Len(evs) |-> evs[i].type]
Count(evs, type) == Cardinality({i \in 1..Len(evs) : evs[i].type = type})
Last(evs) == evs[Len(evs)]

ToolEventTypes ==
  {"TOOL_CALL_START", "TOOL_CALL_ARGS", "TOOL_CALL_END", "TOOL_CALL_RESULT"}

\* the events of a run that carry the tool-call id, in order
OfToolCall(evs, id) ==
  SelectSeq(evs, LAMBDA e : e.type \in ToolEventTypes /\ e.toolCallId = id)

\* generator g was driven to completion and was not a busy-rejected call
Drained(g) == pc[g] = "done" /\ TypesOf(events[g]) # <<"CUSTOM">>

\* a step of generator g changes nothing of the other generators
OthersUntouched(g) ==
  \A h \in Gens \ {g} :
    /\ pc'[h] = pc[h]
    /\ events'[h] = events[h]
    /\ toolCalls'[h] = toolCalls[h]
    /\ idx'[h] = idx[h]
    /\ executedTools'[h] = executedTools[h]
    /\ held'[h] = held[h]
    /\ words'[h] = words[h]
    /\ widx'[h] = widx[h]
    /\ execLog'[h] = execLog[h]
    /\ resolveLog'[h] = resolveLog[h]

\* the labels at which no accepted run of the generator is under way
NotRunning == {"unborn", "start", "yBusy", "done", "doneForgotten", "closed"}

\* number of invocations of an executable made for request j of generator g
Invocations(g, j) ==
  Cardinality({k \in 1..Len(execLog[g]) : execLog[g][k].idx = j})

\* C1: a processPrompt call first driven while a run is in progress yields
\* exactly one CUSTOM event and then completes; it calls no resolver, invokes
\* no tool, leaves isProcessing as it is (true at the rejection), and changes
\* nothing of the run in progress.
C1_BusyCallRejected ==
  [][\A g \in Gens :
       /\ (pc[g] = "start" /\ pc'[g] # "start" /\ isProcessing)
            => /\ pc'[g] = "yBusy"
               /\ events'[g] = <<CustomEvent(BusyMessage)>>
               /\ isProcessing'
               /\ resolveLog'[g] = 0
               /\ execLog'[g] = <<>>
               /\ OthersUntouched(g)
       /\ (pc[g] = "yBusy" /\ pc'[g] # "yBusy")
            => /\ pc'[g] = "done"
               /\ events'[g] = <<CustomEvent(BusyMessage)>>
               /\ isProcessing' = isProcessing
               /\ resolveLog'[g] = 0
               /\ execLog'[g] = <<>>
               /\ OthersUntouched(g)]_vars

\* a call was rejected and driven to completion while the first run is in
\* the middle of a tool call
C1_Witness ==
  \E g, h \in Gens :
    /\ g # h
    /\ pc[g] = "done"
    /\ events[g] = <<CustomEvent(BusyMessage)>>
    /\ pc[h] = "yToolResult"
    /\ isProcessing

\* C2: the events of an accepted run that was driven to completion hold
\* exactly one RUN_STARTED, as the first event, and exactly one RUN_FINISHED,
\* as the last event; while the run is under way RUN_STARTED is its first
\* event and nothing follows a RUN_FINISHED.
C2_RunBracketed ==
  \A g \in Gens :
    /\ \A i \in 1..Len(events[g]) :
         /\ events[g][i].type = "RUN_STARTED" => i = 1
         /\ events[g][i].type = "RUN_FINISHED" => i = Len(events[g])
    /\ Drained(g) =>
         /\ Len(events[g]) >= 2
         /\ events[g][1] = RunStartedEvent(ThreadId(g), RunId(g))
         /\ Last(events[g]).type = "RUN_FINISHED"
         /\ Count(events[g], "RUN_STARTED") = 1
         /\ Count(events[g], "RUN_FINISHED") = 1

\* a run with a failed and a successful tool call was driven to completion
C2_Witness ==
  \E g \in Gens :
    /\ Drained(g)
    /\ Count(events[g], "TOOL_CALL_RESULT") = 2
    /\ Len(executedTools[g]) = 1
    /\ Last(events[g]).type = "RUN_FINISHED"

\* C3: in a run driven to completion, the events of each tool-call id are
\* TOOL_CALL_START, at most one TOOL_CALL_ARGS, exactly one TOOL_CALL_END and
\* exactly one TOOL_CALL_RESULT, in this order, whether the call succeeded
\* or failed (also when the failure is in serializing the result).
C3_ToolCallFraming ==
  \A g \in Gens :
    Drained(g) =>
      \A i \in 1..Len(events[g]) :
        events[g][i].type \in ToolEventTypes =>
          TypesOf(OfToolCall(events[g], events[g][i].toolCallId)) \in
            { <<"TOOL_CALL_START", "TOOL_CALL_END", "TOOL_CALL_RESULT">>,
              <<"TOOL_CALL_START", "TOOL_CALL_ARGS", "TOOL_CALL_END",
                "TOOL_CALL_RESULT">> }

C5_UnknownToolReported ==
  \A g \in Gens :
    Drained(g) =>
      \A j \in 1..Len(toolCalls[g]) :
        ~HasTool(toolCalls[g][j].name) =>
          /\ \E p \in 1..Len(events[g]) :
               events[g][p] = ToolCallEndEvent(ToolCallId(g, j))
          /\ \E p \in 1..Len(events[g]) :
               /\ events[g][p].type = "TOOL_CALL_RESULT"
               /\ events[g][p].toolCallId = ToolCallId(g, j)

\* C6: a run in which an error reached the outer handler holds exactly one
\* RUN_ERROR, carrying the error's message and the code PROCESSING_ERROR; the
\* event after it is RUN_FINISHED with status 'error' and is the last one;
\* the run holds no RUN_FINISHED 'completed'.
C6_ProcessingError ==
  \A g \in Gens :
    \A i \in 1..Len(events[g]) :
      events[g][i].type = "RUN_ERROR" =>
        /\ events[g][i].error = [message |-> KeywordsErrorMessage,
                                 code |-> "PROCESSING_ERROR"]
        /\ Count(events[g], "RUN_ERROR") = 1
        /\ i >= Len(events[g]) - 1
        /\ i < Len(events[g]) =>
             events[g][i + 1] = RunFinishedEvent(ThreadId(g), RunId(g), "error")
        /\ pc[g] = "done" => i = Len(events[g]) - 1
        /\ \A k \in 1..Len(events[g]) :
             events[g][k].type = "RUN_FINISHED" =>
               events[g][k].result # "completed"

\* with the remote strategy active the resolver fell back to keywords, threw,
\* and the run was driven to completion
C6_Witness ==
  \E g \in Gens :
    /\ Drained(g)
    /\ RemoteActive
    /\ Count(events[g], "RUN_ERROR") = 1

\* C7: the step that completes an accepted run leaves isProcessing false,
\* and a processPrompt call first driven when every accepted run has been
\* driven to completion is accepted: its first event is RUN_STARTED.
C7_ReleasedWhenDrained ==
  [][\A g \in Gens :
       /\ (pc[g] = "yRunFinished" /\ pc'[g] = "done") => ~isProcessing'
       /\ (/\ pc[g] = "start"
           /\ pc'[g] # "start"
           /\ \A h \in Gens \ {g} : pc[h] \in NotRunning)
            => /\ pc'[g] = "yRunStarted"
               /\ events'[g] = <<RunStartedEvent(ThreadId(g), RunId(g))>>]_vars

\* a run was driven to completion and the next call was accepted
C7_Witness ==
  \E g, h \in Gens :
    /\ pc[h] = "doneForgotten"
    /\ pc[g] = "yRunStarted"
    /\ events[g] = <<RunStartedEvent(ThreadId(g), RunId(g))>>

\* C8: the busy flag is released also when the consumer of a started run
\* requests no further events: a processPrompt call first driven when no
\* accepted run is under way, other than runs whose consumer stopped, is not
\* rejected as busy.
C8_ReleasedWithoutDraining ==
  [][\A g \in Gens :
       (/\ pc[g] = "start"
        /\ pc'[g] # "start"
        /\ \A h \in Gens \ {g} : pc[h] \in NotRunning \cup {"abandoned"})
         => pc'[g] = "yRunStarted"]_vars

\* the phases of a run after its loop over the requests
AfterLoop ==
  {"yTextStart", "aPhraseLocal", "aPhraseFetch", "yChunk", "aChunkDelay",
   "yContent", "yTextEnd"}

C10_DemoInvokedOnce ==
  RemoteActive =>
    \A g \in Gens :
      /\ \A j \in 1..Len(toolCalls[g]) : Invocations(g, j) <= 1
      /\ \A k \in 1..Len(execLog[g]) : execLog[g][k].by = "processPrompt"

\* C11: a processPrompt call of the demo AgentClient that is first driven
\* while another run is under way yields the busy notification as its only
\* event, calls no resolver, invokes no tool and changes nothing of the run
\* under way, so that the events and tool executions of two runs never
\* interleave.
C11_DemoBusyCallRejected ==
  [][\A g \in Gens :
       (/\ pc[g] = "start"
        /\ pc'[g] # "start"
        /\ \E h \in Gens \ {g} : pc[h] \notin NotRunning)
         => /\ events'[g] = <<CustomEvent(BusyMessage)>>
            /\ resolveLog'[g] = 0
            /\ execLog'[g] = <<>>
            /\ OthersUntouched(g)]_vars

\* C12: when an executable throws in a run of the demo AgentClient, the run
\* driven to completion holds TOOL_CALL_END and a TOOL_CALL_RESULT with
\* success:false for that call, starts every later request that names a
\* tool, holds no RUN_ERROR and ends with RUN_FINISHED 'completed'.
C12_DemoToolFailureContained ==
  \A g \in Gens :
    pc[g] = "done" =>
      \A k \in 1..Len(execLog[g]) :
        (execLog[g][k].outcome = "threw" /\ execLog[g][k].by = "processPrompt") =>
          LET i == execLog[g][k].idx
              id == ToolCallId(g, i)
              evs == events[g]
          IN /\ \E p \in 1..Len(evs) : evs[p] = ToolCallEndEvent(id)
             /\ \E p \in 1..Len(evs) :
                  /\ evs[p].type = "TOOL_CALL_RESULT"
                  /\ evs[p].toolCallId = id
                  /\ includes(evs[p].result, "\"success\":false")
             /\ \A j \in (i + 1)..Len(toolCalls[g]) :
                  HasTool(toolCalls[g][j].name) =>
                    \E p \in 1..Len(evs) :
                      evs[p] = ToolCallStartEvent(ToolCallId(g, j),
                                                  toolCalls[g][j].name,
                                                  MessageId(g, j))
             /\ Count(evs, "RUN_ERROR") = 0
             /\ Last(evs) = RunFinishedEvent(ThreadId(g), RunId(g), "completed")

\* C13: in a run of the demo AgentClient that holds a RUN_ERROR, every
\* RUN_FINISHED carries the status 'error'.
C13_DemoErrorStatus ==
  \A g \in Gens :
    Count(events[g], "RUN_ERROR") > 0 =>
      \A k \in 1..Len(events[g]) :
        events[g][k].type = "RUN_FINISHED" => events[g][k].result = "error"

(***************************************************************************)
(* Properties of the text message.                                         *)
(***************************************************************************)
\* the sentence of the 'no applicable tool' text that both implementations
\* share
NoToolSentence ==
  "but I don't have the specific tools needed to help with that right now."

IsNoToolText(delta) == includes(delta, NoToolSentence)

\* C15: in a run of the starter-kit AgentClient the 'no applicable tool' text
\* is emitted only when the resolver returned no requests at all; a run in
\* which an executable was invoked, whether it returned or threw, holds no
\* 'no applicable tool' text.
C15_NoToolTextOnlyWithoutRequests ==
  \A g \in Gens :
    \A i \in 1..Len(events[g]) :
      (/\ events[g][i].type = "TEXT_MESSAGE_CONTENT"
       /\ IsNoToolText(events[g][i].delta))
        => /\ Len(toolCalls[g]) = 0
           /\ Len(execLog[g]) = 0

(***************************************************************************)
(* Both AgentClient implementations side by side, on prompts that match no *)
(* rule or one rule and on completion replies of at most one tool call:    *)
(* the AgentClient is the starter-kit one when it was given the            *)
(* starter-kit tools and the demo one when it was given the Fidelity tools.*)
(***************************************************************************)
\* prompts that match no rule (the empty one among them), one that matches
\* one rule, and a value that is not a string
NoToolsPrompts == {JStr(""), JStr("hello"), JStr("refresh"), JUndefined}
DemoNoToolsPrompts ==
  {JStr("hello"), JStr("show my portfolio"), JUndefined}

\* the completion service returns at most one tool call to the starter kit,
\* and none to the demo
NoToolsReplies == {reply \in RemoteReplies : Len(reply) <= 1}
DemoNoToolsReplies == {<<>>}

NoToolsInit == Init \/ DemoInit

\* which AgentClient was constructed
StarterKit == tools = StarterTools
Fidelity == tools = DemoTools

\* The steps of the starter-kit AgentClient, then those of the demo one.
\* The demo executables reached with these inputs (getPortfolio, called
\* without arguments) take no TOOL_CALL_ARGS and do not throw.
NoToolsNext ==
  \E g \in Gens :
    \/ StarterKit /\ \E p \in NoToolsPrompts : Call(g, p)
    \/ StarterKit /\ BusyReject(g)
    \/ StarterKit /\ BusyReturn(g)
    \/ StarterKit /\ Accept(g)
    \/ StarterKit /\ CallResolver(g)
    \/ StarterKit /\ \E reply \in NoToolsReplies : FetchToolsOk(g, reply)
    \/ StarterKit /\ \E why \in FetchFailures : FetchToolsFail(g, why)
    \/ StarterKit /\ KeywordsOk(g)
    \/ StarterKit /\ KeywordsThrow(g)
    \/ StarterKit /\ AfterToolStart(g)
    \/ StarterKit /\ AfterToolArgs(g)
    \/ StarterKit /\ ToolResolves(g, ToolResultOk)
    \/ StarterKit /\ ToolResolves(g, JCircular)
    \/ StarterKit /\ ToolRejects(g)
    \/ StarterKit /\ AfterToolEnd(g)
    \/ StarterKit /\ AfterToolResult(g)
    \/ StarterKit /\ AfterToolEndErr(g)
    \/ StarterKit /\ AfterToolResultErr(g)
    \/ StarterKit /\ AfterTextStart(g)
    \/ StarterKit /\ PhraseLocal(g)
    \/ StarterKit /\ \E content \in RemoteContents : PhraseOk(g, content)
    \/ StarterKit /\ PhraseFail(g)
    \/ StarterKit /\ AfterChunk(g)
    \/ StarterKit /\ ChunkDelayDone(g)
    \/ StarterKit /\ AfterContent(g)
    \/ StarterKit /\ AfterTextEnd(g)
    \/ StarterKit /\ AfterRunError(g)
    \/ StarterKit /\ AfterRunFinished(g)
    \/ StarterKit /\ ConsumerReturn(g)
    \/ StarterKit /\ ConsumerAbandon(g)
    \/ Fidelity /\ \E p \in DemoNoToolsPrompts : Call(g, p)
    \/ Fidelity /\ DemoStart(g)
    \/ Fidelity /\ DemoCallResolver(g)
    \/ Fidelity /\ \E reply \in DemoNoToolsReplies : DemoFetchToolsOk(g, reply)
    \/ Fidelity /\ \E why \in FetchFailures : DemoFetchToolsFail(g, why)
    \/ Fidelity /\ DemoKeywordsOk(g)
    \/ Fidelity /\ DemoKeywordsThrow(g)
    \/ Fidelity /\ DemoAfterToolStart(g)
    \/ Fidelity /\ DemoToolResolves(g)
    \/ Fidelity /\ DemoAfterToolEnd(g)
    \/ Fidelity /\ DemoAfterToolResult(g)
    \/ Fidelity /\ DemoAfterTextStart(g)
    \/ Fidelity /\ DemoGatherResolves(g)
    \/ Fidelity /\ \E content \in RemoteContents : DemoPhraseOk(g, content)
    \/ Fidelity /\ DemoPhraseFail(g)
    \/ Fidelity /\ DemoAfterChunk(g)
    \/ Fidelity /\ DemoChunkDelayDone(g)
    \/ Fidelity /\ DemoAfterContent(g)
    \/ Fidelity /\ DemoAfterTextStartNone(g)
    \/ Fidelity /\ DemoAfterContentNone(g)
    \/ Fidelity /\ DemoFinish(g)
    \/ Fidelity /\ DemoAfterRunFinished(g)

NoToolsSpec == NoToolsInit /\ [][NoToolsNext]_vars

\* the resolver of generator g has returned the empty request list
EmptyResolved(g) ==
  /\ resolveLog[g] = 1
  /\ toolCalls[g] = <<>>
  /\ pc[g] \notin {"aFetchTools", "aKeywords"}
  /\ Count(events[g], "RUN_ERROR") = 0

NoToolsRunTypes ==
  <<"RUN_STARTED", "TEXT_MESSAGE_START", "TEXT_MESSAGE_CONTENT",
    "TEXT_MESSAGE_END", "RUN_FINISHED">>

\* C14: in both implementations, a run whose resolver returned the empty
\* request list holds no TOOL_CALL event; driven to completion it is
\* RUN_STARTED, TEXT_MESSAGE_START, one TEXT_MESSAGE_CONTENT carrying the
\* 'no applicable tool' text, TEXT_MESSAGE_END, RUN_FINISHED 'completed',
\* the three text events under one message id.
C14_EmptyListRun ==
  \A g \in Gens :
    EmptyResolved(g) =>
      LET evs == events[g]
          n == Len(evs)
      IN /\ n \in 1..5
         /\ TypesOf(evs) = SubSeq(NoToolsRunTypes, 1, n)
         /\ pc[g] = "done" => n = 5
         /\ n >= 2 => evs[2].role = "assistant"
         /\ n >= 3 => /\ evs[3].messageId = evs[2].messageId
                      /\ IsNoToolText(evs[3].delta)
         /\ n >= 4 => evs[4].messageId = evs[2].messageId
         /\ n = 5 => evs[5] = RunFinishedEvent(ThreadId(g), RunId(g),
                                               "completed")

\* with the remote strategy active the completion service returned no tool
\* call to the demo AgentClient, and the run was driven to completion
C14_Witness ==
  \E g \in Gens :
    /\ Fidelity
    /\ RemoteActive
    /\ EmptyResolved(g)
    /\ pc[g] = "done"
    /\ Len(events[g]) = 5

(***************************************************************************)
(* The demo with the local strategy: the LLMClient as constructed, no key  *)
(* set (js/webmcp-provider.js:68-72), and prompts the keyword rules match. *)
(***************************************************************************)
DemoLocalPrompts ==
  {JStr("show my portfolio"), JStr("rebalance to aggressive"),
   JStr("make it conservative")}

DemoLocalInit == DemoInit /\ useRealLLM = FALSE

\* The steps these runs take: the requests name registered tools, none of
\* the executables throws on arguments the rules build, and the text message
\* is the templated sentence of part_003:412-413.
DemoLocalNext ==
  \E g \in Gens :
    \/ \E p \in DemoLocalPrompts : Call(g, p)
    \/ DemoStart(g)
    \/ DemoCallResolver(g)
    \/ DemoKeywordsOk(g)
    \/ DemoAfterToolStart(g)
    \/ DemoAfterToolArgs(g)
    \/ DemoToolResolves(g)
    \/ DemoAfterToolEnd(g)
    \/ DemoAfterToolResult(g)
    \/ DemoAfterTextStart(g)
    \/ DemoAfterContent(g)
    \/ DemoFinish(g)
    \/ DemoAfterRunFinished(g)

DemoLocalSpec == DemoLocalInit /\ [][DemoLocalNext]_vars

(***************************************************************************)
(* Properties of the demo scenarios.                                       *)
(***************************************************************************)
\* the resolver of generator g has returned
Resolved(g) ==
  /\ resolveLog[g] = 1
  /\ pc[g] \notin {"aFetchTools", "aKeywords"}
  /\ Count(events[g], "RUN_ERROR") = 0

\* C18: with the local strategy the prompt "show my portfolio" resolves to
\* the single request getPortfolio, without arguments; the run driven to
\* completion is RUN_STARTED, TOOL_CALL_START(getPortfolio), TOOL_CALL_END,
\* TOOL_CALL_RESULT with the portfolio and no failure mark, TEXT_MESSAGE_START,
\* one TEXT_MESSAGE_CONTENT that is not empty and names getPortfolio,
\* TEXT_MESSAGE_END, RUN_FINISHED 'completed'.
C18_ShowMyPortfolio ==
  \A g \in Gens :
    (prompt[g] = JStr("show my portfolio") /\ Resolved(g)) =>
      /\ toolCalls[g] = <<ToolCall("getPortfolio", JUndefined)>>
      /\ pc[g] = "done" =>
           LET evs == events[g]
           IN /\ TypesOf(evs) =
                   <<"RUN_STARTED", "TOOL_CALL_START", "TOOL_CALL_END",
                     "TOOL_CALL_RESULT", "TEXT_MESSAGE_START",
                     "TEXT_MESSAGE_CONTENT", "TEXT_MESSAGE_END",
                     "RUN_FINISHED">>
              /\ evs[2].toolCallName = "getPortfolio"
              /\ evs[3].toolCallId = evs[2].toolCallId
              /\ evs[4].toolCallId = evs[2].toolCallId
              /\ includes(evs[4].result, "\"allocation\":{\"stocks\":")
              /\ ~includes(evs[4].result, "\"success\":false")
              /\ ~includes(evs[4].result, "\"error\"")
              /\ evs[6].messageId = evs[5].messageId
              /\ evs[7].messageId = evs[5].messageId
              /\ Len(evs[6].delta) > 0
              /\ includes(evs[6].delta, "getPortfolio")
              /\ evs[8] = RunFinishedEvent(ThreadId(g), RunId(g), "completed")

\* the run of "show my portfolio" was driven to completion
C18_Witness ==
  \E g \in Gens :
    /\ prompt[g] = JStr("show my portfolio")
    /\ pc[g] = "done"
    /\ Len(events[g]) = 8
    /\ Len(execLog[g]) = 1

AggressiveRequest ==
  ToolCall("rebalancePortfolio", JObj(<< <<"strategy", JStr("aggressive")>> >>))

\* the only change made to the application so far is one rebalancing to
\* aggressive
OnlyAggressiveApplied ==
  app.portfolioHistory = <<"Rebalanced to aggressive strategy">>

\* C19: with the local strategy the prompt "rebalance to aggressive" resolves
\* to a list that holds the request rebalancePortfolio {strategy:
\* 'aggressive'}; when the run, executed on the initial portfolio, has been
\* driven to completion, the allocation of the application is 70/20/10 and no
\* longer 50/30/20, and the newAllocation of the rebalancePortfolio result is
\* the allocation the application holds.
C19_RebalanceToAggressive ==
  \A g \in Gens :
    (prompt[g] = JStr("rebalance to aggressive") /\ Resolved(g)) =>
      /\ \E j \in 1..Len(toolCalls[g]) : toolCalls[g][j] = AggressiveRequest
      /\ (pc[g] = "done" /\ OnlyAggressiveApplied) =>
           /\ app.portfolio = [stocks |-> 70, bonds |-> 20, cash |-> 10]
           /\ app.portfolio # FidelityAppData.portfolio
           /\ \E j \in 1..Len(toolCalls[g]) :
                /\ toolCalls[g][j] = AggressiveRequest
                /\ \E p \in 1..Len(events[g]) :
                     /\ events[g][p].type = "TOOL_CALL_RESULT"
                     /\ events[g][p].toolCallId = ToolCallId(g, j)
                     /\ includes(events[g][p].result,
                                 "\"newAllocation\":"
                                   \o JSONstringify(AllocationObj(app.portfolio)))

\* the run of "rebalance to aggressive" was driven to completion on the
\* initial portfolio
C19_Witness ==
  \E g \in Gens :
    /\ prompt[g] = JStr("rebalance to aggressive")
    /\ pc[g] = "done"
    /\ OnlyAggressiveApplied
    /\ Count(events[g], "TOOL_CALL_RESULT") = 2

(***************************************************************************)
(* LLMClient.getToolCalls of both implementations, invocation by           *)
(* invocation (starter-kit/js/llm-client.js:47-199,                        *)
(* js/webmcp-provider.js:80-267).  An invocation is a generator slot: pc   *)
(* is where the async function is parked, prompt its argument, toolCalls   *)
(* the list its promise resolved with, held the record of how it went.     *)
(* The LLMClient is the starter-kit one when the application is the        *)
(* starter-kit one.  Between the steps of the invocations the key is set   *)
(* or cleared, the tool list replaced and the application data changed.    *)
(***************************************************************************)
ResolverPrompts ==
  {JStr("Show my portfolio and REFRESH"), JStr("retirement plan 10 years"),
   JUndefined}

\* the prompts of the invocations made with the local strategy: one that
\* matches rules of both implementations, one that matches none
LocalPrompts == {JStr("Show my portfolio and REFRESH"), JStr("hello")}

\* the parsed response bodies: no tool call, one that parses, one whose
\* arguments do not parse
ResolverReplies ==
  { <<>>,
    << [type |-> "function", name |-> "rebalancePortfolio",
        arguments |-> "{\"strategy\":\"aggressive\"}"] >>,
    << [type |-> "function", name |-> "getPortfolio", arguments |-> "{bad"] >> }

StarterLLMClient == app = YourAppData

\* what the rules of each implementation give on the string prompts
\* (llm-client.js:143-198, js/webmcp-provider.js:199-266), computed once
KeywordResults ==
  [p \in {q \in ResolverPrompts \cup LocalPrompts : q.t = "str"} |->
     [starter |-> getToolCallsFromKeywords(p.s),
      demo |-> DemoGetToolCallsFromKeywords(p.s)]]

\* this.getToolCallsFromKeywords(prompt) of the LLMClient constructed, for
\* a string prompt
KeywordsOf(p) ==
  IF StarterLLMClient THEN KeywordResults[p].starter
  ELSE KeywordResults[p].demo

ResolverInit == Init \/ DemoInit

ResolverUnchanged ==
  UNCHANGED <<isProcessing, events, idx, executedTools, words, widx, execLog,
              resolveLog>>

\* llmClient.getToolCalls(prompt) is called, llm-client.js:47-53: the remote
\* strategy sends the completion request, the local one enters
\* getToolCallsFromKeywords
GetToolCalls(g, p) ==
  /\ pc[g] = "unborn"
  /\ \A h \in Gens : h < g => pc[h] # "unborn"
  /\ prompt' = [prompt EXCEPT ![g] = p]
  /\ Goto(g, IF RemoteActive THEN "aFetchTools" ELSE "aKeywords")
  /\ held' = [held EXCEPT ![g] = [entry |-> "getToolCalls",
                                  remote |-> "none"]]
  /\ UNCHANGED <<config, toolCalls>>
  /\ ResolverUnchanged

\* llmClient.getToolCallsFromKeywords(prompt) is called directly,
\* llm-client.js:142
CallKeywords(g, p) ==
  /\ pc[g] = "unborn"
  /\ \A h \in Gens : h < g => pc[h] # "unborn"
  /\ prompt' = [prompt EXCEPT ![g] = p]
  /\ Goto(g, "aKeywords")
  /\ held' = [held EXCEPT ![g] = [entry |-> "getToolCallsFromKeywords",
                                  remote |-> "none"]]
  /\ UNCHANGED <<config, toolCalls>>
  /\ ResolverUnchanged

\* an answer without function tool calls taken as a failure of the call
OpenAIAnswers_OrKeywords(g, reply) ==
  /\ pc[g] = "aFetchTools"
  /\ ~ExtractThrows(reply)
  /\ held' = [held EXCEPT ![g].remote = "answered"]
  /\ IF ExtractCalls(reply) = <<>>
     THEN Goto(g, "aKeywords") /\ UNCHANGED toolCalls
     ELSE /\ toolCalls' = [toolCalls EXCEPT ![g] = ExtractCalls(reply)]
          /\ Goto(g, "returned")
  /\ UNCHANGED <<config, prompt>>
  /\ ResolverUnchanged

\* getToolCallsFromOpenAI, llm-client.js:109-124: the service answers and
\* the tool calls parse
OpenAIAnswers(g, reply) ==
  /\ pc[g] = "aFetchTools"
  /\ ~ExtractThrows(reply)
  /\ toolCalls' = [toolCalls EXCEPT ![g] = ExtractCalls(reply)]
  /\ held' = [held EXCEPT ![g].remote = "answered"]
  /\ Goto(g, "returned")
  /\ UNCHANGED <<config, prompt>>
  /\ ResolverUnchanged

\* OpenAIFails, had the catch answered a failed call with the empty list
OpenAIFails_Empty(g, why) ==
  /\ pc[g] = "aFetchTools"
  /\ why = "bad_arguments" => \E reply \in ResolverReplies : ExtractThrows(reply)
  /\ held' = [held EXCEPT ![g].remote = "failed"]
  /\ toolCalls' = [toolCalls EXCEPT ![g] = <<>>]
  /\ Goto(g, "returned")
  /\ UNCHANGED <<config, prompt>>
  /\ ResolverUnchanged

\* getToolCallsFromOpenAI, llm-client.js:89-131: the call fails (transport
\* error, non-success status, unparseable body, unparseable arguments) and
\* the catch enters getToolCallsFromKeywords
OpenAIFails(g, why) ==
  /\ pc[g] = "aFetchTools"
  /\ why = "bad_arguments" => \E reply \in ResolverReplies : ExtractThrows(reply)
  /\ held' = [held EXCEPT ![g].remote = "failed"]
  /\ Goto(g, "aKeywords")
  /\ UNCHANGED <<config, prompt, toolCalls>>
  /\ ResolverUnchanged

\* KeywordsReturns, had the rules pushed a request only for a tool that is
\* in the tool list of the LLMClient
KeywordsReturns_Registered(g) ==
  /\ pc[g] = "aKeywords"
  /\ ~KeywordsThrows(prompt[g])
  /\ toolCalls' = [toolCalls EXCEPT
                     ![g] = SelectSeq(KeywordsOf(prompt[g]),
                                      LAMBDA c : HasTool(c.name))]
  /\ held' = [held EXCEPT ![g] = [entry |-> @.entry, remote |-> @.remote,
                                  tools |-> tools, app |-> app]]
  /\ Goto(g, "returned")
  /\ UNCHANGED <<config, prompt>>
  /\ ResolverUnchanged

\* getToolCallsFromKeywords returns, llm-client.js:143-198; held keeps the
\* tool list and the application data it ran with
KeywordsReturns(g) ==
  /\ pc[g] = "aKeywords"
  /\ ~KeywordsThrows(prompt[g])
  /\ toolCalls' = [toolCalls EXCEPT ![g] = KeywordsOf(prompt[g])]
  /\ held' = [held EXCEPT ![g] = [entry |-> @.entry, remote |-> @.remote,
                                  tools |-> tools, app |-> app]]
  /\ Goto(g, "returned")
  /\ UNCHANGED <<config, prompt>>
  /\ ResolverUnchanged

\* getToolCallsFromKeywords throws, llm-client.js:143: the promise of the
\* invocation rejects
KeywordsRejects(g) ==
  /\ pc[g] = "aKeywords"
  /\ KeywordsThrows(prompt[g])
  /\ Goto(g, "rejected")
  /\ UNCHANGED <<config, prompt, toolCalls, held>>
  /\ ResolverUnchanged

\* setApiKey that enables the remote mode only for a key that is not empty
SetApiKey_Validates(k) ==
  /\ <<useRealLLM, apiKey>> # <<Truthy(k), k>>
  /\ apiKey' = k
  /\ useRealLLM' = Truthy(k)
  /\ UNCHANGED <<tools, app, pc, prompt, toolCalls, held>>
  /\ ResolverUnchanged

\* setApiKey, llm-client.js:27-31
SetApiKey(k) ==
  /\ <<useRealLLM, apiKey>> # <<TRUE, k>>
  /\ apiKey' = k
  /\ useRealLLM' = TRUE
  /\ UNCHANGED <<tools, app, pc, prompt, toolCalls, held>>
  /\ ResolverUnchanged

\* clearApiKey, llm-client.js:36-40 (the demo page does the same,
\* part_003:59-60)
ClearApiKey ==
  /\ useRealLLM
  /\ apiKey' = JNull
  /\ useRealLLM' = FALSE
  /\ UNCHANGED <<tools, app, pc, prompt, toolCalls, held>>
  /\ ResolverUnchanged

\* AgentClient.updateTools, agent-client.js:221-225: the tool list of the
\* starter-kit LLMClient is replaced
UpdateTools(newTools) ==
  /\ StarterLLMClient
  /\ tools # newTools
  /\ tools' = newTools
  /\ UNCHANGED <<useRealLLM, apiKey, app, pc, prompt, toolCalls, held>>
  /\ ResolverUnchanged

\* a tool of the demo application is executed and changes its data
\* (fidelity-app.js:192-213), once
AppChanges ==
  /\ ~StarterLLMClient
  /\ app.portfolioHistory = <<>>
  /\ app' = rebalancePortfolio(JObj(<< <<"strategy", JStr("aggressive")>> >>),
                               app).app
  /\ UNCHANGED <<useRealLLM, apiKey, tools, pc, prompt, toolCalls, held>>
  /\ ResolverUnchanged

ResolverNext ==
  \/ \E g \in Gens :
       \/ \E p \in ResolverPrompts : GetToolCalls(g, p)
       \/ \E p \in ResolverPrompts : CallKeywords(g, p)
       \/ \E reply \in ResolverReplies : OpenAIAnswers(g, reply)
       \/ \E why \in FetchFailures : OpenAIFails(g, why)
       \/ KeywordsReturns(g)
       \/ KeywordsRejects(g)
  \/ \E k \in ApiKeys : SetApiKey(k)
  \/ ClearApiKey
  \/ \E newTools \in {<<>>, StarterTools} : UpdateTools(newTools)
  \/ AppChanges

ResolverSpec == ResolverInit /\ [][ResolverNext]_vars

(***************************************************************************)
(* Properties of the resolver.                                             *)
(***************************************************************************)
\* invocation g has settled: its promise resolved or rejected
Settles(g) == pc[g] \in {"returned", "rejected"}

\* invocation g went through getToolCalls with the remote strategy
\* configured, and the remote call failed
FellBack(g) ==
  /\ pc[g] # "unborn"
  /\ held[g].entry = "getToolCalls"
  /\ held[g].remote = "failed"

\* invocation h is a direct call of getToolCallsFromKeywords
Direct(h) ==
  /\ pc[h] # "unborn"
  /\ held[h].entry = "getToolCallsFromKeywords"

\* invocation g ran the keyword rules
RanKeywords(g) ==
  /\ pc[g] \in {"aKeywords", "returned", "rejected"}
  /\ held[g].remote # "answered"

\* C16: in both implementations, a getToolCalls invocation whose remote call
\* failed settles as a direct getToolCallsFromKeywords invocation with the
\* same prompt does: for a string prompt it does not reject and returns the
\* same list; it rejects only where the direct invocation rejects (a prompt
\* that is not a string).
C16_FallbackEqualsLocal ==
  \A g \in Gens :
    FellBack(g) =>
      /\ pc[g] \in {"aKeywords", "returned", "rejected"}
      /\ prompt[g].t = "str" => pc[g] # "rejected"
      /\ \A h \in Gens :
           (Direct(h) /\ prompt[h] = prompt[g] /\ Settles(g) /\ Settles(h)) =>
             /\ pc[g] = pc[h]
             /\ toolCalls[g] = toolCalls[h]

\* with the demo LLMClient, a getToolCalls invocation fell back and returned
\* a list that is not empty, and a direct invocation with the same prompt
\* returned
C16_Witness ==
  \E g, h \in Gens :
    /\ ~StarterLLMClient
    /\ FellBack(g)
    /\ Direct(h)
    /\ prompt[h] = prompt[g]
    /\ pc[g] = "returned"
    /\ pc[h] = "returned"
    /\ Len(toolCalls[g]) > 0

MaxRegistrations == 3

\* names, descriptions and executables to register: analyzeData is
\* registered both by YourApp.registerWithWebMCP (agent-client.js:572) and by
\* registerExampleTools (webmcp-provider.js:211), with different
\* descriptions and functions.  registerTool takes any value as a name: the
\* empty string and null are among them.
ToolNames == {JStr("analyzeData"), JStr(""), JNull}
Descriptions ==
  {"Analyze the current application data and provide insights",
   "Perform analysis on the current data set"}
\* a function object is told from another by identity
Executables == {"YourApp", "registerExampleTools"}

\* the object literal { name, description, execute }
ToolDefinition(name, description, execute) ==
  [name |-> name, description |-> description, execute |-> execute]

ToolDefinitions ==
  {ToolDefinition(name, description, execute) :
     name \in ToolNames, description \in Descriptions,
     execute \in Executables}

\* Map.prototype.has, Map.prototype.set and Map.prototype.values: set on a
\* key the Map has replaces the value where the entry is, set on a new key
\* adds an entry at the end
MapHas(map, key) == \E i \in 1..Len(map) : map[i].key = key
MapSet(map, key, value) ==
  IF MapHas(map, key)
    THEN [i \in 1..Len(map) |->
            IF map[i].key = key THEN [key |-> key, value |-> value]
                                ELSE map[i]]
    ELSE Append(map, [key |-> key, value |-> value])
MapValues(map) == [i \in 1..Len(map) |-> map[i].value]

\* registerTool that leaves the entry of a name already registered as it is
registerTool_KeepsFirst(map, name, description, execute) ==
  IF MapHas(map, name) THEN map
  ELSE MapSet(map, name, ToolDefinition(name, description, execute))

\* the Map after registerTool(name, description, execute)
registerTool(map, name, description, execute) ==
  MapSet(map, name, ToolDefinition(name, description, execute))

\* toolDefinitions.forEach(tool => this.registerTool(...))
RECURSIVE registerTools(_, _)
registerTools(map, toolDefinitions) ==
  IF toolDefinitions = <<>> THEN map
  ELSE LET tool == Head(toolDefinitions) IN
       registerTools(registerTool(map, tool.name, tool.description,
                                  tool.execute),
                     Tail(toolDefinitions))

\* Array.from(this.tools.values())
getTools(map) == MapValues(map)

StarterProvider == app = YourAppData

RegistryInit ==
  /\ isProcessing = FALSE
  /\ useRealLLM = FALSE
  /\ apiKey = JNull
  /\ tools = <<>>
  /\ app \in {YourAppData, FidelityAppData}
  /\ pc = [g \in Gens |-> "unborn"]
  /\ prompt = [g \in Gens |-> JUndefined]
  /\ events = [g \in Gens |-> <<>>]
  /\ toolCalls = [g \in Gens |-> <<>>]
  /\ idx = [g \in Gens |-> 0]
  /\ executedTools = [g \in Gens |-> <<>>]
  /\ held = JUndefined
  /\ words = [g \in Gens |-> <<>>]
  /\ widx = [g \in Gens |-> 0]
  /\ execLog = <<>>
  /\ resolveLog = [g \in Gens |-> 0]

RegistryUnchanged ==
  UNCHANGED <<isProcessing, useRealLLM, apiKey, app, pc, prompt, events,
              toolCalls, idx, executedTools, words, widx, resolveLog>>

\* WebMCP.registerTool(name, description, execute)
RegisterTool(name, description, execute) ==
  /\ Len(execLog) < MaxRegistrations
  /\ tools' = registerTool(tools, name, description, execute)
  /\ execLog' = Append(execLog, ToolDefinition(name, description, execute))
  /\ UNCHANGED held
  /\ RegistryUnchanged

\* WebMCP.registerTools(toolDefinitions); the provider of the demo has no
\* registerTools
RegisterTools(toolDefinitions) ==
  /\ StarterProvider
  /\ Len(execLog) + Len(toolDefinitions) <= MaxRegistrations
  /\ tools' = registerTools(tools, toolDefinitions)
  /\ execLog' = execLog \o toolDefinitions
  /\ UNCHANGED held
  /\ RegistryUnchanged

\* WebMCP.getTools()
GetTools ==
  /\ held' = [t |-> "array", returned |-> getTools(tools), after |-> execLog]
  /\ UNCHANGED <<tools, execLog>>
  /\ RegistryUnchanged

RegistryNext ==
  \/ \E name \in ToolNames, description \in Descriptions,
        execute \in Executables : RegisterTool(name, description, execute)
  \/ \E first, second \in ToolDefinitions : RegisterTools(<<first, second>>)
  \/ GetTools

RegistrySpec == RegistryInit /\ [][RegistryNext]_vars

(***************************************************************************)
(* Properties of the registry.                                             *)
(***************************************************************************)
RegisteredNames(calls) == {calls[i].name : i \in 1..Len(calls)}

\* the most recent of the calls that registered the name
LastRegistration(calls, name) ==
  calls[CHOOSE i \in 1..Len(calls) :
          /\ calls[i].name = name
          /\ \A j \in (i + 1)..Len(calls) : calls[j].name # name]

EntriesNamed(list, name) == {i \in 1..Len(list) : list[i].name = name}

\* C20: WebMCPProvider (both implementations): after any sequence of
\* registerTool calls, the list getTools() returns has exactly one entry for
\* each distinct name registered and no entry for another name, and the
\* entry for a name carries the description and the executable of the most
\* recent registration under that name.
C20_OneEntryPerRegisteredName ==
  held # JUndefined =>
    /\ \A i \in 1..Len(held.returned) :
         held.returned[i].name \in RegisteredNames(held.after)
    /\ \A name \in RegisteredNames(held.after) :
         /\ Cardinality(EntriesNamed(held.returned, name)) = 1
         /\ \A i \in EntriesNamed(held.returned, name) :
              /\ held.returned[i].description =
                   LastRegistration(held.after, name).description
              /\ held.returned[i].execute =
                   LastRegistration(held.after, name).execute

\* getTools() has returned after a name was registered, then another name,
\* then the first name again with another description and another
\* executable
C20_Witness ==
  /\ held # JUndefined
  /\ Len(held.after) = 3
  /\ held.after[1].name = held.after[3].name
  /\ held.after[2].name # held.after[1].name
  /\ held.after[1].description # held.after[3].description
  /\ held.after[1].execute # held.after[3].execute
  /\ Len(held.returned) = 2


\* the names a registry must not accept
InvalidNames == {JStr(""), JNull}

\* C21: WebMCPProvider.registerTool rejects a registration with an empty or
\* null name and leaves the registry as it was: whatever registerTool calls
\* were made, no entry of the registry is stored under the empty string or
\* under null.
C21_InvalidNameRejected ==
  \A i \in 1..Len(tools) : tools[i].key \notin InvalidNames


(***************************************************************************)
(* WebMCPProvider.executeTool (starter-kit/js/webmcp-provider.js:65-80 and *)
(* js/webmcp-provider.js:27-38), over a registry some registerTool calls   *)
(* have filled.  In this specification                                     *)
(*   tools    is WebMCPProvider.tools, the Map, as in RegistrySpec;        *)
(*   pc[g]    is where the g-th executeTool call stands: "unborn" before   *)
(*            it, "awaitExecute" at await tool.execute(args), "returned"   *)
(*            or "rejected" once its promise has settled;                  *)
(*   held[g]  is the call: its name, the Map it looked the name up in,     *)
(*            how the executable settled and how the call settled;         *)
(*   execLog[g] is the invocations of executables the call has made;       *)
(*   app      tells the two implementations apart.                         *)
(***************************************************************************)
\* the registrations that filled the registry
ExecuteDefinitions ==
  {ToolDefinition(name, "Perform analysis on the current data set", execute) :
     name \in {JStr("analyzeData"), JStr("getData")},
     execute \in Executables}

\* the names executeTool is called with
ExecuteNames == {JStr("analyzeData"), JStr("getData"), JStr("unknownTool")}

\* what an executable resolves with
ExecuteValues == {ToolResultOk, JUndefined}

\* what an executable throws: an Error with a message, a string, null
ExecuteCauses ==
  {[t |-> "error", message |-> ToolErrorMessage], JStr(ToolErrorMessage),
   JNull}

\* Map.prototype.get
MapGet(map, key) ==
  IF MapHas(map, key)
    THEN map[CHOOSE i \in 1..Len(map) : map[i].key = key].value
    ELSE JUndefined

\* Array.from(this.tools.keys()).join(', '): join renders null as the empty
\* string
MapKeysJoined(map) ==
  join([i \in 1..Len(map) |->
          IF CanRead(map[i].key) THEN JSString(map[i].key) ELSE ""], ", ")

\* the Error of lines 68 (starter kit) and 30 (demo)
NotFoundMessage(map, name) ==
  IF StarterProvider
    THEN "WebMCP: Tool '" \o JSString(name)
           \o "' not found. Available tools: " \o MapKeysJoined(map)
    ELSE "Tool '" \o JSString(name) \o "' not found"

\* the catch of lines 76-79 (starter kit) and 35-37 (demo): error.message is
\* read, which throws a TypeError of its own when error is null
WrappedMessage(cause) ==
  IF ~CanRead(cause) THEN ReadErrorMessage(cause, "message")
  ELSE (IF StarterProvider THEN "WebMCP tool execution failed: "
                           ELSE "Tool execution failed: ")
         \o (IF cause.t = "error" THEN cause.message ELSE "undefined")

ExecuteInit ==
  /\ isProcessing = FALSE
  /\ useRealLLM = FALSE
  /\ apiKey = JNull
  /\ tools \in {registerTools(<<>>, calls) :
                  calls \in UNION {[1..n -> ExecuteDefinitions] :
                                     n \in 0..MaxRegistrations}}
  /\ app \in {YourAppData, FidelityAppData}
  /\ pc = [g \in Gens |-> "unborn"]
  /\ prompt = [g \in Gens |-> JUndefined]
  /\ events = [g \in Gens |-> <<>>]
  /\ toolCalls = [g \in Gens |-> <<>>]
  /\ idx = [g \in Gens |-> 0]
  /\ executedTools = [g \in Gens |-> <<>>]
  /\ held = [g \in Gens |-> JUndefined]
  /\ words = [g \in Gens |-> <<>>]
  /\ widx = [g \in Gens |-> 0]
  /\ execLog = [g \in Gens |-> <<>>]
  /\ resolveLog = [g \in Gens |-> 0]

ExecuteUnchanged ==
  UNCHANGED <<isProcessing, useRealLLM, apiKey, app, prompt, events,
              toolCalls, idx, executedTools, words, widx, resolveLog>>

\* WebMCP.executeTool(name, args) is called: the name is looked up and, when
\* it is there, the executable is called; the calls are numbered in the
\* order in which they are made
ExecuteTool(g, name, args) ==
  /\ pc[g] = "unborn"
  /\ \A h \in Gens : h < g => pc[h] # "unborn"
  /\ LET tool == MapGet(tools, name) IN
       IF tool = JUndefined
         THEN /\ held' = [held EXCEPT ![g] =
                   [name |-> name, before |-> tools, settled |-> JUndefined,
                    threw |-> TRUE,
                    value |-> JStr(NotFoundMessage(tools, name))]]
              /\ Goto(g, "rejected")
              /\ UNCHANGED execLog
         ELSE /\ held' = [held EXCEPT ![g] =
                   [name |-> name, before |-> tools, settled |-> JUndefined]]
              /\ execLog' = [execLog EXCEPT ![g] =
                   Append(@, [execute |-> tool.execute, args |-> args,
                              outcome |-> "pending"])]
              /\ Goto(g, "awaitExecute")
  /\ UNCHANGED tools
  /\ ExecuteUnchanged

\* the executable resolves: return result
ExecutableResolves(g, value) ==
  /\ pc[g] = "awaitExecute"
  /\ Settle(g, "resolved")
  /\ held' = [held EXCEPT ![g] =
       [name |-> @.name, before |-> @.before,
        settled |-> [threw |-> FALSE, value |-> value],
        threw |-> FALSE, value |-> value]]
  /\ Goto(g, "returned")
  /\ UNCHANGED tools
  /\ ExecuteUnchanged

\* executeTool that calls the executable again when it has thrown
ExecutableRejects_Retries(g, cause) ==
  /\ pc[g] = "awaitExecute"
  /\ execLog' = [Settled(g, "rejected") EXCEPT ![g] =
       Append(@, [execute |-> MapGet(held[g].before, held[g].name).execute,
                  args |-> JObj(<<>>), outcome |-> "pending"])]
  /\ UNCHANGED <<held, pc, tools>>
  /\ ExecuteUnchanged

\* the executable rejects: the catch throws a new Error
ExecutableRejects(g, cause) ==
  /\ pc[g] = "awaitExecute"
  /\ Settle(g, "rejected")
  /\ held' = [held EXCEPT ![g] =
       [name |-> @.name, before |-> @.before,
        settled |-> [threw |-> TRUE, value |-> cause],
        threw |-> TRUE, value |-> JStr(WrappedMessage(cause))]]
  /\ Goto(g, "rejected")
  /\ UNCHANGED tools
  /\ ExecuteUnchanged

ExecuteNext ==
  \E g \in Gens :
    \/ \E name \in ExecuteNames : ExecuteTool(g, name, JObj(<<>>))
    \/ \E value \in ExecuteValues : ExecutableResolves(g, value)
    \/ \E cause \in ExecuteCauses : ExecutableRejects(g, cause)

ExecuteSpec == ExecuteInit /\ [][ExecuteNext]_vars

(***************************************************************************)
(* Properties of executeTool.                                              *)
(***************************************************************************)
ExecuteSettled(g) == pc[g] \in {"returned", "rejected"}

ExecutePrefix ==
  IF StarterProvider THEN "WebMCP tool execution failed: "
                     ELSE "Tool execution failed: "

\* C22: WebMCPProvider.executeTool(name, args), both implementations: a call
\* with a name that is not registered fails and invokes no executable; a call
\* whose executable throws fails, and when the executable threw an Error the
\* message of the failure is the wrapping prefix followed by the message of
\* that Error; a call whose executable resolves returns what it resolved
\* with; a call invokes at most one executable, once, the one registered
\* under the name, and the registry is as it was when the call was made.
C22_ExecuteTool ==
  \A g \in Gens :
    held[g] # JUndefined =>
      LET call == held[g]
          found == MapHas(call.before, call.name) IN
      /\ tools = call.before
      /\ Len(execLog[g]) <= 1
      /\ ~found => /\ pc[g] = "rejected"
                   /\ call.threw
                   /\ execLog[g] = <<>>
      /\ found => /\ Len(execLog[g]) = 1
                  /\ execLog[g][1].execute =
                       MapGet(call.before, call.name).execute
      /\ (found /\ ExecuteSettled(g)) =>
           /\ call.settled # JUndefined
           /\ call.threw = call.settled.threw
           /\ (pc[g] = "rejected") = call.threw
           /\ ~call.threw => call.value = call.settled.value
           /\ (call.threw /\ call.settled.value.t = "error") =>
                call.value = JStr(ExecutePrefix
                                    \o call.settled.value.message)

\* one call has failed wrapping the Error its executable threw, another has
\* failed for a name the registry does not have
C22_Witness ==
  \E g, h \in Gens :
    /\ pc[g] = "rejected" /\ Len(execLog[g]) = 1
    /\ held[g].settled # JUndefined
    /\ held[g].settled.value.t = "error"
    /\ pc[h] = "rejected" /\ execLog[h] = <<>>
    /\ ~MapHas(held[h].before, held[h].name)
    /\ Len(tools) = 2


(***************************************************************************)
(* Starter-kit AgentClient.executeDirectTool                               *)
(* (starter-kit/js/agent-client.js:235-277), one action per stretch of     *)
(* code between two suspension points.  The generator keeps its one        *)
(* request in toolCalls[g] and what the executable resolved with in        *)
(* held[g]; it neither reads nor writes isProcessing.                      *)
(***************************************************************************)
\* 'Successfully executed ${toolName}'
DirectSuccessText(toolName) == "Successfully executed " \o toolName

\* the catch of lines 269-274
DirectCatch(g, message) ==
  /\ Emit(g, RunErrorEvent(ThreadId(g), RunId(g),
                           [message |-> message, code |-> "DIRECT_TOOL_ERROR"]))
  /\ Goto(g, "dRunError")

\* tool.execute(args) is called, line 256
DirectInvoke(g) ==
  /\ execLog' = [execLog EXCEPT
                   ![g] = Append(@, [idx |-> 1, name |-> toolCalls[g][1].name,
                                     by |-> "executeDirectTool",
                                     outcome |-> "pending"])]
  /\ Goto(g, "dTool")

\* agentClient.executeDirectTool(toolName, args) and the first next(), lines
\* 236-239 (creating the generator has no effect, so the creation is taken
\* together with the first request)
DirectStart(g, toolName, args) ==
  /\ pc[g] = "unborn"
  /\ \A h \in Gens : h < g => Started(h)
  /\ toolCalls' = [toolCalls EXCEPT ![g] = <<ToolCall(toolName, args)>>]
  /\ Emit(g, RunStartedEvent(ThreadId(g), RunId(g)))
  /\ Goto(g, "dRunStarted")
  /\ UNCHANGED <<isProcessing, config, prompt, idx, executedTools, held,
                 words, widx, execLog, resolveLog>>

\* next() after RUN_STARTED, lines 241-252
DirectFindTool(g) ==
  /\ pc[g] = "dRunStarted"
  /\ LET toolName == toolCalls[g][1].name
     IN IF HasTool(toolName)
        THEN /\ Emit(g, ToolCallStartEvent(ToolCallId(g, 1), toolName,
                                           MessageId(g, 1)))
             /\ Goto(g, "dToolStart")
        ELSE /\ Emit(g, CustomEvent("Tool \"" \o toolName \o "\" not found"))
             /\ Goto(g, "dNotFound")
  /\ UNCHANGED <<isProcessing, config, prompt, locals, execLog,
                 resolveLog>>

\* next() after the not-found notification, lines 244-245
DirectAfterNotFound(g) ==
  /\ pc[g] = "dNotFound"
  /\ Emit(g, RunFinishedEvent(ThreadId(g), RunId(g), "error"))
  /\ Goto(g, "dRunFinished")
  /\ UNCHANGED <<isProcessing, config, prompt, locals, execLog,
                 resolveLog>>

\* next() after TOOL_CALL_START, lines 254-258
DirectAfterToolStart(g) ==
  /\ pc[g] = "dToolStart"
  /\ LET args == toolCalls[g][1].args
     IN IF Truthy(args) /\ NumKeys(args) > 0
        THEN /\ Emit(g, ToolCallArgsEvent(ToolCallId(g, 1),
                                          JSONstringify(args)))
             /\ Goto(g, "dToolArgs")
             /\ UNCHANGED execLog
        ELSE /\ DirectInvoke(g)
             /\ UNCHANGED events
  /\ UNCHANGED <<isProcessing, config, prompt, locals, resolveLog>>

\* next() after TOOL_CALL_ARGS, line 258
DirectAfterToolArgs(g) ==
  /\ pc[g] = "dToolArgs"
  /\ DirectInvoke(g)
  /\ UNCHANGED <<isProcessing, config, prompt, events, locals, resolveLog>>

\* the executable resolves, lines 258-260
DirectToolResolves(g, result) ==
  /\ pc[g] = "dTool"
  /\ held' = [held EXCEPT ![g] = result]
  /\ Emit(g, ToolCallEndEvent(ToolCallId(g, 1)))
  /\ Goto(g, "dToolEnd")
  /\ Settle(g, "returned")
  /\ UNCHANGED <<isProcessing, config, prompt, toolCalls, idx, executedTools,
                 words, widx, resolveLog>>

\* the executable rejects, lines 258, 269-274
DirectToolRejects(g) ==
  /\ pc[g] = "dTool"
  /\ DirectCatch(g, ToolErrorMessage)
  /\ Settle(g, "threw")
  /\ UNCHANGED <<isProcessing, config, prompt, locals, resolveLog>>

\* next() after TOOL_CALL_END, line 261: JSON.stringify(result) is
\* evaluated inside the try; when it throws, the catch runs
DirectAfterToolEnd(g) ==
  /\ pc[g] = "dToolEnd"
  /\ IF Serializable(held[g])
     THEN /\ Emit(g, ToolCallResultEvent(MessageId(g, 1), ToolCallId(g, 1),
                                         JSONstringify(held[g])))
          /\ Goto(g, "dToolResult")
     ELSE DirectCatch(g, "Converting circular structure to JSON")
  /\ UNCHANGED <<isProcessing, config, prompt, locals, execLog,
                 resolveLog>>

\* next() after TOOL_CALL_RESULT, lines 264-265
DirectAfterToolResult(g) ==
  /\ pc[g] = "dToolResult"
  /\ Emit(g, TextMessageStartEvent(ResponseMessageId(g), "assistant"))
  /\ Goto(g, "dTextStart")
  /\ UNCHANGED <<isProcessing, config, prompt, locals, execLog,
                 resolveLog>>

\* next() after TEXT_MESSAGE_START, line 266
DirectAfterTextStart(g) ==
  /\ pc[g] = "dTextStart"
  /\ Emit(g, TextMessageContentEvent(ResponseMessageId(g),
                                     DirectSuccessText(toolCalls[g][1].name)))
  /\ Goto(g, "dContent")
  /\ UNCHANGED <<isProcessing, config, prompt, locals, execLog,
                 resolveLog>>

\* next() after TEXT_MESSAGE_CONTENT, line 267
DirectAfterContent(g) ==
  /\ pc[g] = "dContent"
  /\ Emit(g, TextMessageEndEvent(ResponseMessageId(g)))
  /\ Goto(g, "dTextEnd")
  /\ UNCHANGED <<isProcessing, config, prompt, locals, execLog,
                 resolveLog>>

\* a direct run that reports the status 'error' after a RUN_ERROR
DirectFinish_ErrorStatus(g) ==
  /\ pc[g] \in {"dTextEnd", "dRunError"}
  /\ Emit(g, RunFinishedEvent(ThreadId(g), RunId(g),
                              IF pc[g] = "dRunError" THEN "error"
                              ELSE "completed"))
  /\ Goto(g, "dRunFinished")
  /\ UNCHANGED <<isProcessing, config, prompt, locals, execLog,
                 resolveLog>>

\* next() after TEXT_MESSAGE_END or after RUN_ERROR, line 276
DirectFinish(g) ==
  /\ pc[g] \in {"dTextEnd", "dRunError"}
  /\ Emit(g, RunFinishedEvent(ThreadId(g), RunId(g), "completed"))
  /\ Goto(g, "dRunFinished")
  /\ UNCHANGED <<isProcessing, config, prompt, locals, execLog,
                 resolveLog>>

\* next() after RUN_FINISHED: the generator completes
DirectAfterRunFinished(g) ==
  /\ pc[g] = "dRunFinished"
  /\ Goto(g, "dDone")
  /\ UNCHANGED <<isProcessing, config, prompt, events, locals, execLog,
                 resolveLog>>

(***************************************************************************)
(* The operations of the starter kit that execute tools, together:         *)
(* processPrompt on the AgentClient of the page (main.js:168) with the     *)
(* local strategy, and executeDirectTool, on that AgentClient or on one    *)
(* window.testAgent.executeTool constructs over the same tools             *)
(* (main.js:418-424).                                                      *)
(***************************************************************************)
ToolRunsPrompts == {JStr("refresh"), JStr("hello")}
DirectToolNames == {"refreshData", "unknownTool"}
DirectArgs == {JObj(<<>>), JObj(<< <<"force", JBool(TRUE)>> >>), JNull}

ToolRunsInit == Init /\ useRealLLM = FALSE

ToolRunsNext ==
  \E g \in Gens :
    \/ \E p \in ToolRunsPrompts : Call(g, p)
    \/ BusyReject(g)
    \/ BusyReturn(g)
    \/ Accept(g)
    \/ CallResolver(g)
    \/ KeywordsOk(g)
    \/ AfterToolStart(g)
    \/ ToolResolves(g, ToolResultOk)
    \/ ToolRejects(g)
    \/ AfterToolEnd(g)
    \/ AfterToolResult(g)
    \/ AfterToolEndErr(g)
    \/ AfterToolResultErr(g)
    \/ AfterTextStart(g)
    \/ AfterContent(g)
    \/ AfterTextEnd(g)
    \/ AfterRunFinished(g)
    \/ \E toolName \in DirectToolNames, args \in DirectArgs :
         DirectStart(g, toolName, args)
    \/ DirectFindTool(g)
    \/ DirectAfterNotFound(g)
    \/ DirectAfterToolStart(g)
    \/ DirectAfterToolArgs(g)
    \/ DirectToolResolves(g, ToolResultOk)
    \/ DirectToolResolves(g, JCircular)
    \/ DirectToolRejects(g)
    \/ DirectAfterToolEnd(g)
    \/ DirectAfterToolResult(g)
    \/ DirectAfterTextStart(g)
    \/ DirectAfterContent(g)
    \/ DirectFinish(g)
    \/ DirectAfterRunFinished(g)

ToolRunsSpec == ToolRunsInit /\ [][ToolRunsNext]_vars

\* the invocations of executables that have not settled
InFlight ==
  {<<g, k>> \in Gens \X (1..2) :
     k <= Len(execLog[g]) /\ execLog[g][k].outcome = "pending"}

\* C23: starter kit: at any time at most one tool executable is in flight,
\* over every interleaving of processPrompt and executeDirectTool on one or
\* several AgentClient instances built over the same tools.
C23_OneExecutableInFlight == Cardinality(InFlight) <= 1


(***************************************************************************)
(* The starter-kit AgentClient with a consumer that keeps requesting       *)
(* events (the for-await loop of main.js:171-173 running to its end),      *)
(* executables and remote calls that settle, and timers that fire: every   *)
(* step of a generator that can be taken is eventually taken.              *)
(***************************************************************************)
LivePrompts == {JStr("Show my portfolio and REFRESH"), JUndefined}

\* KeywordsOk, with the result of the rules read from KeywordResults, which
\* is computed once
LiveKeywordsOk(g) ==
  /\ pc[g] = "aKeywords"
  /\ ~KeywordsThrows(prompt[g])
  /\ toolCalls' = [toolCalls EXCEPT ![g] = KeywordResults[prompt[g]].starter]
  /\ ContinueLoop(g, KeywordResults[prompt[g]].starter, 1)
  /\ UNCHANGED <<isProcessing, config, prompt, executedTools, held, words,
                 widx, execLog, resolveLog>>

\* the steps of generator g once it exists
Driven(g) ==
  \/ BusyReject(g)
  \/ BusyReturn(g)
  \/ Accept(g)
  \/ CallResolver(g)
  \/ \E reply \in NoToolsReplies : FetchToolsOk(g, reply)
  \/ \E why \in FetchFailures : FetchToolsFail(g, why)
  \/ LiveKeywordsOk(g)
  \/ KeywordsThrow(g)
  \/ AfterToolStart(g)
  \/ AfterToolArgs(g)
  \/ ToolResolves(g, ToolResultOk)
  \/ ToolResolves(g, JCircular)
  \/ ToolRejects(g)
  \/ AfterToolEnd(g)
  \/ AfterToolResult(g)
  \/ AfterToolEndErr(g)
  \/ AfterToolResultErr(g)
  \/ AfterTextStart(g)
  \/ PhraseLocal(g)
  \/ \E content \in RemoteContents : PhraseOk(g, content)
  \/ PhraseFail(g)
  \/ AfterChunk(g)
  \/ ChunkDelayDone(g)
  \/ AfterContent(g)
  \/ AfterTextEnd(g)
  \/ AfterRunError(g)
  \/ AfterRunFinished(g)

LiveNext ==
  \E g \in Gens :
    \/ \E p \in LivePrompts : Call(g, p)
    \/ Driven(g)

LiveSpec ==
  Init /\ [][LiveNext]_vars /\ \A g \in Gens : WF_vars(Driven(g))

\* generator g has emitted RUN_STARTED and no RUN_FINISHED yet
RunOpen(g) ==
  /\ Len(events[g]) > 0
  /\ events[g][1].type = "RUN_STARTED"
  /\ Last(events[g]).type # "RUN_FINISHED"

\* generator g has just emitted RUN_FINISHED
RunClosed(g) ==
  /\ Len(events[g]) > 0
  /\ Last(events[g]).type = "RUN_FINISHED"

\* C24: starter-kit AgentClient.processPrompt, with a consumer that keeps
\* requesting events and executables and remote calls that settle: every run
\* that has emitted RUN_STARTED eventually emits RUN_FINISHED, and whenever
\* isProcessing is true it eventually becomes false.
C24_RunsTerminate ==
  /\ \A g \in Gens : RunOpen(g) ~> RunClosed(g)
  /\ isProcessing ~> ~isProcessing

\* a run that took the error path has emitted RUN_FINISHED and released the
\* flag
C24_Witness ==
  \E g \in Gens :
    /\ pc[g] = "done"
    /\ Count(events[g], "RUN_ERROR") = 1
    /\ RunClosed(g)
    /\ ~isProcessing


(***************************************************************************)
(* The remote completion call that never settles.  The fetch of            *)
(* getToolCallsFromOpenAI (llm-client.js:89-102, js/webmcp-provider.js:    *)
(* 113-126) is given no signal and races against no timer: the await       *)
(* is left only when the service answers or the transport fails.  HangSpec *)
(* has the steps of LiveSpec and requires every step of the program to be  *)
(* taken, but requires nothing of the service.                             *)
(***************************************************************************)

\* the remote completion call of generator g settles: fetch resolves or
\* rejects
Answered(g) ==
  \/ \E reply \in NoToolsReplies : FetchToolsOk(g, reply)
  \/ \E why \in FetchFailures : FetchToolsFail(g, why)

\* the steps of generator g that the program takes by itself
Stepped(g) ==
  \/ BusyReject(g)
  \/ BusyReturn(g)
  \/ Accept(g)
  \/ CallResolver(g)
  \/ LiveKeywordsOk(g)
  \/ KeywordsThrow(g)
  \/ AfterToolStart(g)
  \/ AfterToolArgs(g)
  \/ ToolResolves(g, ToolResultOk)
  \/ ToolResolves(g, JCircular)
  \/ ToolRejects(g)
  \/ AfterToolEnd(g)
  \/ AfterToolResult(g)
  \/ AfterToolEndErr(g)
  \/ AfterToolResultErr(g)
  \/ AfterTextStart(g)
  \/ PhraseLocal(g)
  \/ \E content \in RemoteContents : PhraseOk(g, content)
  \/ PhraseFail(g)
  \/ AfterChunk(g)
  \/ ChunkDelayDone(g)
  \/ AfterContent(g)
  \/ AfterTextEnd(g)
  \/ AfterRunError(g)
  \/ AfterRunFinished(g)

HangNext ==
  \E g \in Gens :
    \/ \E p \in LivePrompts : Call(g, p)
    \/ Answered(g)
    \/ Stepped(g)

HangSpec ==
  Init /\ [][HangNext]_vars /\ \A g \in Gens : WF_vars(Stepped(g))

\* getToolCalls of generator g is waiting for the remote completion call
AwaitingRemote(g) == pc[g] = "aFetchTools"

\* C25: when the remote strategy is active and the remote completion call
\* does not resolve, the call is treated as failed and the run waiting on it
\* still proceeds to RUN_FINISHED: a run waiting for the remote completion
\* call eventually emits RUN_FINISHED, whether or not the service answers.
C25_HungCallFallsBack ==
  \A g \in Gens : AwaitingRemote(g) ~> RunClosed(g)


(***************************************************************************)
(* The executables of the Fidelity application, called one after another   *)
(* on the one FidelityApp (js/fidelity-app.js:174-247).  execLog is the    *)
(* list of the executions made, each with the application data before and  *)
(* after it and the way its promise settles.                               *)
(***************************************************************************)
MaxExecutions == 3

Strategies == {"conservative", "moderate", "aggressive"}

\* argument objects given to rebalancePortfolio: the three strategies, a
\* strategy the application does not know, no strategy, no argument object
RebalanceArgs ==
  {JObj(<< <<"strategy", JStr(s)>> >>) : s \in Strategies \cup {"balanced"}}
    \cup {JObj(<<>>), JUndefined}

\* argument objects given to getRetirementProjection
ProjectionArgs ==
  {JObj(<<>>), JObj(<< <<"yearsToRetirement", JNum(10)>> >>), JUndefined}

PortfolioInit ==
  /\ isProcessing = FALSE
  /\ useRealLLM = FALSE
  /\ apiKey = JNull
  /\ tools = DemoTools
  /\ app = FidelityAppData
  /\ pc = [g \in Gens |-> "unborn"]
  /\ prompt = [g \in Gens |-> JUndefined]
  /\ events = [g \in Gens |-> <<>>]
  /\ toolCalls = [g \in Gens |-> <<>>]
  /\ idx = [g \in Gens |-> 0]
  /\ executedTools = [g \in Gens |-> <<>>]
  /\ held = [g \in Gens |-> JUndefined]
  /\ words = [g \in Gens |-> <<>>]
  /\ widx = [g \in Gens |-> 0]
  /\ execLog = <<>>
  /\ resolveLog = [g \in Gens |-> 0]

\* tool.execute(args) for the tool of that name, js/fidelity-app.js:176-246
Executes(name, args) ==
  /\ Len(execLog) < MaxExecutions
  /\ app' = Execute(name, args, app).app
  /\ execLog' = Append(execLog, [name |-> name, args |-> args, before |-> app,
                                 after |-> Execute(name, args, app).app,
                                 threw |-> Execute(name, args, app).threw,
                                 value |-> Execute(name, args, app).value])
  /\ UNCHANGED <<isProcessing, useRealLLM, apiKey, tools, pc, prompt, events,
                 locals, resolveLog>>

PortfolioNext ==
  \/ Executes("getPortfolio", JUndefined)
  \/ \E args \in RebalanceArgs : Executes("rebalancePortfolio", args)
  \/ \E args \in ProjectionArgs : Executes("getRetirementProjection", args)

PortfolioSpec == PortfolioInit /\ [][PortfolioNext]_vars

\* README.md, lines 75-78: the allocation of each strategy
StrategyAllocation ==
  [s \in Strategies |->
     CASE s = "conservative" -> [stocks |-> 40, bonds |-> 40, cash |-> 20]
       [] s = "moderate" -> [stocks |-> 60, bonds |-> 30, cash |-> 10]
       [] s = "aggressive" -> [stocks |-> 70, bonds |-> 20, cash |-> 10]]

\* the risk level named after each strategy
StrategyRiskLevel ==
  [s \in Strategies |->
     CASE s = "conservative" -> "Conservative"
       [] s = "moderate" -> "Moderate"
       [] s = "aggressive" -> "Aggressive"]

\* the execution called rebalancePortfolio with strategy s
RebalancedTo(e, s) ==
  /\ e.name = "rebalancePortfolio"
  /\ e.args = JObj(<< <<"strategy", JStr(s)>> >>)

\* C26: Fidelity application tools: after any sequence of getPortfolio,
\* rebalancePortfolio and getRetirementProjection executions, stocks + bonds
\* + cash = 100 and the allocation is the initial 50/30/20 or one of the
\* documented strategy allocations; rebalancePortfolio with strategy
\* 'conservative', 'moderate' or 'aggressive' sets 40/40/20, 60/30/10 or
\* 70/20/10 respectively and reports the matching risk level; getPortfolio
\* and getRetirementProjection leave the allocation unchanged.
C26_Allocations ==
  /\ app.portfolio.stocks + app.portfolio.bonds + app.portfolio.cash = 100
  /\ \/ app.portfolio = FidelityAppData.portfolio
     \/ \E s \in Strategies : app.portfolio = StrategyAllocation[s]
  /\ \A i \in 1..Len(execLog) :
       LET e == execLog[i] IN
         /\ \A s \in Strategies :
              RebalancedTo(e, s) =>
                /\ ~e.threw
                /\ e.after.portfolio = StrategyAllocation[s]
                /\ Get(e.value, "newAllocation")
                     = AllocationObj(StrategyAllocation[s])
                /\ Get(e.value, "riskLevel") = JStr(StrategyRiskLevel[s])
         /\ e.name \in {"getPortfolio", "getRetirementProjection"} =>
              e.after.portfolio = e.before.portfolio

\* each strategy has been applied, the last one read back by getPortfolio
C26_Witness ==
  /\ Len(execLog) = MaxExecutions
  /\ \E s \in Strategies : \E t \in Strategies \ {s} :
       /\ RebalancedTo(execLog[1], s)
       /\ RebalancedTo(execLog[2], t)
       /\ execLog[3].name \in {"getPortfolio", "getRetirementProjection"}
       /\ ~execLog[3].threw
       /\ app.portfolio = StrategyAllocation[t]


(***************************************************************************)
(* The starter-kit AgentClient under the local strategy, with prompts that *)
(* match several rules of getToolCallsFromKeywords, in an order other than *)
(* that of the rules, and more than once.                                  *)
(***************************************************************************)
OrderPrompts ==
  {JStr("Create a REPORT, analyze, reload and view"),
   JStr("refresh, reload, update"),
   JStr("hello")}

OrderInit == Init /\ useRealLLM = FALSE

OrderNext ==
  \E g \in Gens :
    \/ \E p \in OrderPrompts : Call(g, p)
    \/ BusyReject(g)
    \/ BusyReturn(g)
    \/ Accept(g)
    \/ CallResolver(g)
    \/ KeywordsOk(g)
    \/ AfterToolStart(g)
    \/ ToolResolves(g, ToolResultOk)
    \/ ToolRejects(g)
    \/ AfterToolEnd(g)
    \/ AfterToolResult(g)
    \/ AfterToolEndErr(g)
    \/ AfterToolResultErr(g)
    \/ AfterTextStart(g)
    \/ AfterContent(g)
    \/ AfterTextEnd(g)
    \/ AfterRunFinished(g)

OrderSpec == OrderInit /\ [][OrderNext]_vars

\* the tools named by the rules of getToolCallsFromKeywords, in the order of
\* the if statements (llm-client.js:149-167)
RuleOrder == <<"getAppData", "refreshData", "analyzeData", "generateReport">>

\* the members of RuleOrder at the positions S, in the order of RuleOrder
Pick(S) == SelectSeq(RuleOrder, LAMBDA n : \E i \in S : RuleOrder[i] = n)

IsPrefix(a, b) == Len(a) <= Len(b) /\ a = SubSeq(b, 1, Len(a))

\* the tools named by the TOOL_CALL_START events emitted, in order
StartNames(evs) ==
  LET starts == SelectSeq(evs, LAMBDA e : e.type = "TOOL_CALL_START")
  IN [k \in 1..Len(starts) |-> starts[k].toolCallName]

\* the tools whose executables generator g invoked, in order
ExecNames(g) == [k \in 1..Len(execLog[g]) |-> execLog[g][k].name]

LocalNext ==
  \/ \E g \in Gens :
       \/ \E p \in LocalPrompts : GetToolCalls(g, p)
       \/ \E p \in LocalPrompts : CallKeywords(g, p)
       \/ \E reply \in ResolverReplies : OpenAIAnswers(g, reply)
       \/ \E why \in FetchFailures : OpenAIFails(g, why)
       \/ KeywordsReturns(g)
  \/ \E k \in ApiKeys : SetApiKey(k)
  \/ ClearApiKey
  \/ \E newTools \in {<<>>, StarterTools} : UpdateTools(newTools)
  \/ AppChanges

LocalSpec == ResolverInit /\ [][LocalNext]_vars

\* the words the rules of getToolCallsFromKeywords look for: every rule of
\* the starter kit (llm-client.js:149-167) and of the demo
\* (js/webmcp-provider.js:203-260) needs at least one of its words in the
\* prompt
StarterRuleWords ==
  {"show", "get", "display", "view", "refresh", "reload", "update", "fetch",
   "analyze", "analysis", "examine", "insight", "report", "generate",
   "create", "export"}

DemoRuleWords ==
  {"show", "diversify", "rebalance", "make it more aggressive",
   "increase risk", "make it conservative", "reduce risk", "retirement",
   "analyze", "review", "set", "change", "switch"}

\* the prompts of LocalPrompts in which no word of the rules occurs, for
\* each implementation, computed once
Unmatched ==
  [starter |-> {p \in LocalPrompts :
                  \A w \in StarterRuleWords : ~includes(toLowerCase(p.s), w)},
   demo |-> {p \in LocalPrompts :
               \A w \in DemoRuleWords : ~includes(toLowerCase(p.s), w)}]

\* no rule matches the prompt p
NoRuleMatches(p) ==
  IF StarterLLMClient THEN p \in Unmatched.starter ELSE p \in Unmatched.demo

\* no remote credential is configured: the key is null or the empty string
NoCredential == ~Truthy(apiKey)

\* C28: local strategy, both implementations, string prompts: a getToolCalls
\* invocation made while no remote credential is configured issues no
\* remote call (it enters getToolCallsFromKeywords at once); the keyword
\* rules, once entered with a string prompt, are left only by returning a
\* list, never by throwing; and the list is empty when no rule matches.
C28_LocalNeverFails ==
  [][\A g \in Gens :
       /\ (/\ pc[g] = "unborn" /\ pc'[g] # "unborn"
           /\ held'[g].entry = "getToolCalls"
           /\ NoCredential)
            => /\ pc'[g] = "aKeywords"
               /\ held'[g].remote = "none"
       /\ (pc[g] = "aKeywords" /\ pc'[g] # "aKeywords" /\ prompt[g].t = "str")
            => /\ pc'[g] = "returned"
               /\ held'[g].remote = held[g].remote
               /\ NoRuleMatches(prompt[g]) => toolCalls'[g] = <<>>]_vars

\* with the empty string as the key (useRealLLM is true), a getToolCalls
\* invocation on a prompt no rule matches returned the empty list without a
\* remote call, and another returned a list that is not empty
C28_Witness ==
  \E g, h \in Gens :
    /\ useRealLLM
    /\ NoCredential
    /\ pc[g] = "returned" /\ pc[h] = "returned"
    /\ held[g].entry = "getToolCalls" /\ held[g].remote = "none"
    /\ held[h].entry = "getToolCalls" /\ held[h].remote = "none"
    /\ prompt[g] = JStr("hello")
    /\ toolCalls[g] = <<>>
    /\ Len(toolCalls[h]) > 0


(***************************************************************************)
(* The starter-kit AgentClient with the remote strategy active: a key is   *)
(* set, the prompts are strings, and each of the two remote calls of a run *)
(* (tool selection, llm-client.js:60-131, and response phrasing,           *)
(* llm-client.js:298-344) either answers or fails.                         *)
(***************************************************************************)
DegradePrompts == {JStr("Refresh and ANALYZE"), JStr("hello")}

\* the content of the message an answered phrasing call returns
DegradeContents == {JStr("All done")}

DegradeInit == Init /\ useRealLLM /\ apiKey = JStr("sk-test")

DegradeNext ==
  \E g \in Gens :
    \/ \E p \in DegradePrompts : Call(g, p)
    \/ BusyReject(g)
    \/ BusyReturn(g)
    \/ Accept(g)
    \/ CallResolver(g)
    \/ \E reply \in NoToolsReplies : FetchToolsOk(g, reply)
    \/ \E why \in FetchFailures : FetchToolsFail(g, why)
    \/ KeywordsOk(g)
    \/ AfterToolStart(g)
    \/ AfterToolArgs(g)
    \/ ToolResolves(g, ToolResultOk)
    \/ ToolRejects(g)
    \/ AfterToolEnd(g)
    \/ AfterToolResult(g)
    \/ AfterToolEndErr(g)
    \/ AfterToolResultErr(g)
    \/ AfterTextStart(g)
    \/ \E content \in DegradeContents : PhraseOk(g, content)
    \/ PhraseFail(g)
    \/ AfterChunk(g)
    \/ ChunkDelayDone(g)
    \/ AfterContent(g)
    \/ AfterTextEnd(g)
    \/ AfterRunFinished(g)

DegradeSpec == DegradeInit /\ [][DegradeNext]_vars

\* the deltas of the TEXT_MESSAGE_CONTENT events, concatenated
Text(evs) ==
  LET contents == SelectSeq(evs, LAMBDA e : e.type = "TEXT_MESSAGE_CONTENT")
  IN join([k \in 1..Len(contents) |-> contents[k].delta], "")

\* the text message of generator g is complete
TextComplete(g) == pc[g] \in {"yTextEnd", "yRunFinished"} \/ Drained(g)

\* the phrasing call of the run of generator g was made and did not answer
\* with a content: the run executed a tool, and its text is not one the
\* service returned
PhrasingFailed(g) ==
  /\ TextComplete(g)
  /\ Len(executedTools[g]) > 0
  /\ \A content \in DegradeContents : Text(events[g]) # content.s

\* C29: starter-kit processPrompt with the remote strategy active and a
\* string prompt: whether the remote tool-selection call, the remote
\* phrasing call, both or neither fail, the run emits no RUN_ERROR and ends
\* with RUN_FINISHED 'completed'; and when the phrasing call failed, the
\* concatenated text deltas are the templated sentence naming the executed
\* tools.
C29_RemoteFailuresDegrade ==
  \A g \in Gens :
    /\ Count(events[g], "RUN_ERROR") = 0
    /\ Drained(g) =>
         Last(events[g]) = RunFinishedEvent(ThreadId(g), RunId(g), "completed")
    /\ PhrasingFailed(g) =>
         Text(events[g]) = LLMSimpleResponse(executedTools[g])

\* a run in which both remote calls failed has been driven to its end: its
\* requests are those of the keyword rules, two tools were executed, and
\* its text is the templated sentence
C29_Witness ==
  \E g \in Gens :
    /\ Drained(g)
    /\ Len(executedTools[g]) = 2
    /\ PhrasingFailed(g)
    /\ toolCalls[g] = getToolCallsFromKeywords(prompt[g].s)
    /\ Last(events[g]).type = "RUN_FINISHED"
    /\ Text(events[g])
         = "I've executed the following tools for you: refreshData, analyzeData. The results are displayed in your application above."


(***************************************************************************)
(* The demo AgentClient under the local strategy, with prompts whose       *)
(* requests carry no argument object (getPortfolio,                        *)
(* js/webmcp-provider.js:204), an argument object without members and one  *)
(* with a member (getRetirementProjection, js/webmcp-provider.js:231-245). *)
(***************************************************************************)
ArgsPrompts ==
  {JStr("show my portfolio"), JStr("retirement plan"),
   JStr("retirement plan 10 years")}

ArgsInit == DemoInit /\ useRealLLM = FALSE

ArgsNext ==
  \E g \in Gens :
    \/ \E p \in ArgsPrompts : Call(g, p)
    \/ DemoStart(g)
    \/ DemoCallResolver(g)
    \/ DemoKeywordsOk(g)
    \/ DemoAfterToolStart(g)
    \/ DemoAfterToolArgs(g)
    \/ DemoToolResolves(g)
    \/ DemoAfterToolEnd(g)
    \/ DemoAfterToolResult(g)
    \/ DemoAfterTextStart(g)
    \/ DemoAfterContent(g)
    \/ DemoFinish(g)
    \/ DemoAfterRunFinished(g)

ArgsSpec == ArgsInit /\ [][ArgsNext]_vars

\* the argument object of the request has at least one key
HasKeys(args) == args.t = "obj" /\ NumKeys(args) > 0

\* request j of generator g has been taken up by the loop and its
\* executable has been invoked
Invoked(g, j) ==
  \/ idx[g] > j
  \/ idx[g] = j /\ pc[g] \notin {"yToolStart", "yToolArgs"}

\* C30: for each tool call, TOOL_CALL_ARGS is emitted if and only if the
\* argument object of the request has at least one key; when emitted it is
\* the one event between TOOL_CALL_START and TOOL_CALL_END of the tool-call
\* id and carries the JSON serialization of the argument object; a request
\* with an absent or empty argument object produces no TOOL_CALL_ARGS.
C30_ArgsIffNonEmpty ==
  \A g \in Gens :
    \A j \in 1..Len(toolCalls[g]) :
      LET args == toolCalls[g][j].args
          evs == OfToolCall(events[g], ToolCallId(g, j))
      IN /\ Count(evs, "TOOL_CALL_ARGS") > 0 =>
              /\ HasKeys(args)
              /\ Count(evs, "TOOL_CALL_ARGS") = 1
              /\ evs[1].type = "TOOL_CALL_START"
              /\ evs[2] = ToolCallArgsEvent(ToolCallId(g, j),
                                            JSONstringify(args))
              /\ Len(evs) >= 3 => evs[3].type = "TOOL_CALL_END"
         /\ (Len(evs) > 0 /\ Invoked(g, j) /\ HasKeys(args)) =>
              Count(evs, "TOOL_CALL_ARGS") = 1


(***************************************************************************)
(* The order of the events of one run of the starter-kit AgentClient.      *)
(***************************************************************************)
TextEventTypes ==
  {"TEXT_MESSAGE_START", "TEXT_MESSAGE_CONTENT", "TEXT_MESSAGE_END"}

\* the positions of the events of that type
Positions(evs, type) == {p \in 1..Len(evs) : evs[p].type = type}

\* the run of generator g has emitted no RUN_ERROR
NonError(g) == Count(events[g], "RUN_ERROR") = 0

\* C31: phase order of a non-error run of the starter-kit processPrompt:
\* between two TOOL_CALL_START events lies the TOOL_CALL_RESULT of the first
\* (tool calls never overlap); every tool-call event precedes
\* TEXT_MESSAGE_START; there is at most one TEXT_MESSAGE_START and one
\* TEXT_MESSAGE_END, and once TEXT_MESSAGE_END is emitted exactly one of
\* each, with at least one TEXT_MESSAGE_CONTENT between them and none
\* outside, all of one message id; RUN_FINISHED comes immediately after
\* TEXT_MESSAGE_END and nothing else does.
C31_PhaseOrder ==
  \A g \in Gens :
    NonError(g) =>
      LET evs == events[g]
          starts == Positions(evs, "TEXT_MESSAGE_START")
          ends == Positions(evs, "TEXT_MESSAGE_END")
          contents == Positions(evs, "TEXT_MESSAGE_CONTENT")
      IN /\ \A p, q \in Positions(evs, "TOOL_CALL_START") :
              p < q =>
                \E r \in Positions(evs, "TOOL_CALL_RESULT") :
                  /\ p < r /\ r < q
                  /\ evs[r].toolCallId = evs[p].toolCallId
         /\ \A p \in 1..Len(evs) : \A q \in starts :
              evs[p].type \in ToolEventTypes => p < q
         /\ Cardinality(starts) <= 1
         /\ Cardinality(ends) <= 1
         /\ \A c \in contents :
              /\ \E s \in starts : s < c /\ evs[s].messageId = evs[c].messageId
              /\ \A e \in ends : c < e
         /\ \A e \in ends :
              /\ \E s \in starts : s < e /\ evs[s].messageId = evs[e].messageId
              /\ \E c \in contents : c < e
              /\ e < Len(evs) =>
                   /\ e + 1 = Len(evs)
                   /\ evs[e + 1].type = "RUN_FINISHED"
         /\ \A f \in Positions(evs, "RUN_FINISHED") :
              /\ f = Len(evs)
              /\ f - 1 \in ends
         /\ Drained(g) => Last(evs).type = "RUN_FINISHED"

\* a run with two tool calls and a text streamed in several chunks has been
\* driven to its end without an error
C31_Witness ==
  \E g \in Gens :
    /\ Drained(g)
    /\ NonError(g)
    /\ Count(events[g], "TOOL_CALL_START") = 2
    /\ Count(events[g], "TOOL_CALL_RESULT") = 2
    /\ Count(events[g], "TEXT_MESSAGE_CONTENT") > 1
    /\ Last(events[g]).type = "RUN_FINISHED"


(***************************************************************************)
(* The AgentClient of the starter kit next to the WebMCP registry.  In     *)
(* SnapshotSpec `app` is WebMCP.tools, the Map of the registry, as the     *)
(* sequence of its entries, and `tools` is AgentClient.tools (and          *)
(* LLMClient.tools, agent-client.js:223), the array of entries the client  *)
(* was given: main.js:37 constructs it with yourApp.getTools(), which is   *)
(* WebMCP.getTools() (agent-client.js:642-643).  held[g] keeps the entry   *)
(* `const tool` is bound to (agent-client.js:53, 241) from the lookup      *)
(* until the result of the executable takes its place.                     *)
(***************************************************************************)
\* the name the page registers last, so that registering it again after a
\* removal puts its entry where it was
SnapshotNames == {"generateReport"}
SnapshotPrompts == {JStr("report")}
SnapshotDescription == "A tool of the application"

\* Map.prototype.delete
MapDelete(map, key) == SelectSeq(map, LAMBDA e : e.key # key)

\* WebMCP.removeTool(name) and WebMCP.clearTools()
removeTool(map, name) == MapDelete(map, name)
clearTools(map) == <<>>

\* YourApp.registerWithWebMCP registers the four tools of the application
RECURSIVE RegisteredByYourApp(_)
RegisteredByYourApp(names) ==
  IF names = <<>> THEN <<>>
  ELSE registerTool(RegisteredByYourApp(SubSeq(names, 1, Len(names) - 1)),
                    names[Len(names)], SnapshotDescription, "YourApp")

SnapshotInit ==
  /\ isProcessing = FALSE
  /\ useRealLLM = FALSE
  /\ apiKey = JNull
  /\ app = RegisteredByYourApp(StarterTools)
  /\ tools = getTools(app)
  /\ pc = [g \in Gens |-> "unborn"]
  /\ prompt = [g \in Gens |-> JUndefined]
  /\ events = [g \in Gens |-> <<>>]
  /\ toolCalls = [g \in Gens |-> <<>>]
  /\ idx = [g \in Gens |-> 0]
  /\ executedTools = [g \in Gens |-> <<>>]
  /\ held = [g \in Gens |-> JUndefined]
  /\ words = [g \in Gens |-> <<>>]
  /\ widx = [g \in Gens |-> 0]
  /\ execLog = [g \in Gens |-> <<>>]
  /\ resolveLog = [g \in Gens |-> 0]

SnapshotUnchanged ==
  UNCHANGED <<isProcessing, useRealLLM, apiKey, pc, prompt, events, locals,
              execLog, resolveLog>>

\* WebMCP.registerTool(name, description, execute) by the page
SnapshotRegisterTool(name, execute) ==
  /\ app' = registerTool(app, name, SnapshotDescription, execute)
  /\ UNCHANGED tools
  /\ SnapshotUnchanged

\* WebMCP.removeTool(name) by the page
SnapshotRemoveTool(name) ==
  /\ app' = removeTool(app, name)
  /\ UNCHANGED tools
  /\ SnapshotUnchanged

\* WebMCP.clearTools() by the page
SnapshotClearTools ==
  /\ app' = clearTools(app)
  /\ UNCHANGED tools
  /\ SnapshotUnchanged

\* updateTools that also empties the registry it was given the tools of
updateTools_Clears(newTools) ==
  /\ tools' = newTools
  /\ app' = clearTools(app)
  /\ SnapshotUnchanged

\* agentClient.updateTools(newTools) with what WebMCP.getTools() returns,
\* agent-client.js:221-225
updateTools(newTools) ==
  /\ tools' = newTools
  /\ UNCHANGED app
  /\ SnapshotUnchanged

\* a lookup in what the registry holds at the moment
find_InRegistry(array, name) ==
  LET S == {k \in 1..Len(app) : app[k].key = name}
  IN IF S = {} THEN JUndefined
     ELSE app[CHOOSE k \in S : \A m \in S : k <= m].value

\* this.tools.find(t => t.name === name), agent-client.js:53 and 241
find(array, name) ==
  LET S == {k \in 1..Len(array) : array[k].name = name}
  IN IF S = {} THEN JUndefined
     ELSE array[CHOOSE k \in S : \A m \in S : k <= m]

\* the for..of loop from request i on over the array of entries
\* (agent-client.js:52-59, 82-88)
SnapshotContinueLoop(g, calls, i) ==
  LET S == {j \in i..Len(calls) : find(tools, calls[j].name) # JUndefined}
  IN IF S # {}
     THEN LET j == CHOOSE m \in S : \A k \in S : m <= k
          IN /\ idx' = [idx EXCEPT ![g] = j]
             /\ held' = [held EXCEPT ![g] = find(tools, calls[j].name)]
             /\ Emit(g, ToolCallStartEvent(ToolCallId(g, j), calls[j].name,
                                           MessageId(g, j)))
             /\ Goto(g, "yToolStart")
     ELSE /\ idx' = [idx EXCEPT ![g] = Len(calls) + 1]
          /\ UNCHANGED held
          /\ Emit(g, TextMessageStartEvent(ResponseMessageId(g), "assistant"))
          /\ Goto(g, "yTextStart")

\* getToolCallsFromKeywords returns and the loop starts
SnapshotKeywordsOk(g) ==
  /\ pc[g] = "aKeywords"
  /\ ~KeywordsThrows(prompt[g])
  /\ toolCalls' = [toolCalls EXCEPT ![g] = getToolCallsFromKeywords(prompt[g].s)]
  /\ SnapshotContinueLoop(g, getToolCallsFromKeywords(prompt[g].s), 1)
  /\ UNCHANGED <<isProcessing, config, prompt, executedTools, words, widx,
                 execLog, resolveLog>>

\* next() after the TOOL_CALL_RESULT of a success, agent-client.js:72
SnapshotAfterToolResult(g) ==
  /\ pc[g] = "yToolResult"
  /\ executedTools' = [executedTools EXCEPT
                         ![g] = Append(@, toolCalls[g][idx[g]])]
  /\ SnapshotContinueLoop(g, toolCalls[g], idx[g] + 1)
  /\ UNCHANGED <<isProcessing, config, prompt, toolCalls, words, widx,
                 execLog, resolveLog>>

\* executeDirectTool: next() after RUN_STARTED, agent-client.js:241-252
SnapshotDirectFindTool(g) ==
  /\ pc[g] = "dRunStarted"
  /\ LET toolName == toolCalls[g][1].name
         tool == find(tools, toolName)
     IN IF tool # JUndefined
        THEN /\ held' = [held EXCEPT ![g] = tool]
             /\ Emit(g, ToolCallStartEvent(ToolCallId(g, 1), toolName,
                                           MessageId(g, 1)))
             /\ Goto(g, "dToolStart")
        ELSE /\ UNCHANGED held
             /\ Emit(g, CustomEvent("Tool \"" \o toolName \o "\" not found"))
             /\ Goto(g, "dNotFound")
  /\ UNCHANGED <<isProcessing, config, prompt, toolCalls, idx, executedTools,
                 words, widx, execLog, resolveLog>>

\* processPrompt and updateTools of the client while the page registers,
\* removes and clears tools
SnapshotRun(g) ==
  \/ \E p \in SnapshotPrompts : Call(g, p)
  \/ BusyReject(g)
  \/ BusyReturn(g)
  \/ Accept(g)
  \/ CallResolver(g)
  \/ SnapshotKeywordsOk(g)
  \/ AfterToolStart(g)
  \/ ToolResolves(g, ToolResultOk)
  \/ AfterToolEnd(g)
  \/ SnapshotAfterToolResult(g)
  \/ AfterTextStart(g)
  \/ AfterContent(g)
  \/ AfterTextEnd(g)
  \/ AfterRunFinished(g)

SnapshotNext ==
  \/ \E name \in SnapshotNames, execute \in Executables :
       SnapshotRegisterTool(name, execute)
  \/ \E name \in SnapshotNames : SnapshotRemoveTool(name)
  \/ SnapshotClearTools
  \/ updateTools(getTools(app))
  \/ \E g \in Gens : SnapshotRun(g)

SnapshotSpec == SnapshotInit /\ [][SnapshotNext]_vars

\* the operations of the client, executeDirectTool among them, while the
\* page registers tools
FrameNext ==
  \/ \E name \in SnapshotNames, execute \in Executables :
       SnapshotRegisterTool(name, execute)
  \/ updateTools(getTools(app))
  \/ \E g \in Gens :
       \/ SnapshotRun(g)
       \/ \E toolName \in SnapshotNames : DirectStart(g, toolName, JObj(<<>>))
       \/ SnapshotDirectFindTool(g)
       \/ DirectAfterToolStart(g)
       \/ DirectToolResolves(g, ToolResultOk)
       \/ DirectAfterToolEnd(g)
       \/ DirectAfterToolResult(g)
       \/ DirectAfterTextStart(g)
       \/ DirectAfterContent(g)
       \/ DirectFinish(g)
       \/ DirectAfterRunFinished(g)

FrameSpec == SnapshotInit /\ [][FrameNext]_vars

\* the executable the registry holds for a name, if it holds one
RegistryExecutable(name) ==
  LET e == find(getTools(app), name)
  IN IF e = JUndefined THEN "none" ELSE e.execute

\* a step of processPrompt, of executeDirectTool (getToolCalls is a step of
\* processPrompt) or of updateTools
ClientStep == pc' # pc \/ events' # events \/ execLog' # execLog
              \/ tools' # tools

\* C32: processPrompt, executeDirectTool, updateTools and getToolCalls never
\* add, remove or replace an entry of the WebMCP registry: every step of
\* theirs leaves the name-to-entry map as it was (the executables of the
\* starter kit register nothing).
C32_RegistryFrame == [][ClientStep => app' = app]_vars

\* a run was drained, and the array was replaced, while the registry holds
\* something else than what the page registered at the start
C32_Witness ==
  /\ app # RegisteredByYourApp(StarterTools)
  /\ tools # getTools(RegisteredByYourApp(StarterTools))
  /\ \E g \in Gens : pc[g] = "done" /\ Len(execLog[g]) > 0
  /\ \E g \in Gens : pc[g] = "dDone" /\ Len(execLog[g]) > 0


\* the names of an array of entries, and its first entry of a name
NamesOf(array) == {array[k].name : k \in 1..Len(array)}
FirstNamed(array, name) ==
  array[CHOOSE k \in 1..Len(array) :
          /\ array[k].name = name
          /\ \A m \in 1..(k - 1) : array[m].name # name]

\* the for..of loop of processPrompt moves on: from the resolver's answer,
\* or from the result of a tool
LoopMoves(g) ==
  /\ pc[g] \in {"aKeywords", "yToolResult"}
  /\ pc'[g] \in {"yToolStart", "yTextStart"}

\* C33: processPrompt resolves names against the array the client was given
\* at construction or at the last updateTools: a registerTool, removeTool or
\* clearTools on the registry leaves that array as it is, and whenever the
\* loop moves on, the requests it skips are those whose names the array
\* lacks and the entry it binds for execution is the array's entry of the
\* name, whatever the registry holds by then.
C33_ResolvesAgainstGivenArray ==
  [][/\ app' # app => tools' = tools
     /\ \A g \in Gens :
          LoopMoves(g) =>
            LET calls == toolCalls'[g]
                from == IF pc[g] = "aKeywords" THEN 1 ELSE idx[g] + 1
            IN /\ \A j \in from..(idx'[g] - 1) :
                    calls[j].name \notin NamesOf(tools)
               /\ pc'[g] = "yTextStart" => idx'[g] = Len(calls) + 1
               /\ pc'[g] = "yToolStart" =>
                    /\ idx'[g] \in from..Len(calls)
                    /\ calls[idx'[g]].name \in NamesOf(tools)
                    /\ held'[g] = FirstNamed(tools, calls[idx'[g]].name)]_vars

\* the executable of the page is being run for a name that the registry,
\* cleared and filled again since, binds to another executable
C33_Witness ==
  \E g \in Gens :
    /\ pc[g] = "aTool"
    /\ held[g] = ToolDefinition("generateReport", SnapshotDescription, "YourApp")
    /\ Len(app) = 1
    /\ RegistryExecutable("generateReport") = "registerExampleTools"
    /\ Len(tools) = Len(StarterTools)


(***************************************************************************)
(* The generator of processPrompt is driven by its consumer.               *)
(***************************************************************************)
\* one prompt that the second rule matches, and a remote answer asking for
\* the same tool with arguments; the consumer may stop at any event
LazyPrompts == {JStr("refresh")}
LazyReplies ==
  {<<[type |-> "function", name |-> "refreshData",
      arguments |-> "{\"force\":true}"]>>}

LazyNext ==
  \E g \in Gens :
    \/ \E p \in LazyPrompts : Call(g, p)
    \/ BusyReject(g)
    \/ BusyReturn(g)
    \/ Accept(g)
    \/ CallResolver(g)
    \/ \E reply \in LazyReplies : FetchToolsOk(g, reply)
    \/ \E why \in FetchFailures : FetchToolsFail(g, why)
    \/ KeywordsOk(g)
    \/ AfterToolStart(g)
    \/ AfterToolArgs(g)
    \/ ToolResolves(g, ToolResultOk)
    \/ ToolRejects(g)
    \/ AfterToolEnd(g)
    \/ AfterToolResult(g)
    \/ AfterToolEndErr(g)
    \/ AfterToolResultErr(g)
    \/ AfterTextStart(g)
    \/ PhraseLocal(g)
    \/ \E content \in DegradeContents : PhraseOk(g, content)
    \/ PhraseFail(g)
    \/ AfterChunk(g)
    \/ ChunkDelayDone(g)
    \/ AfterContent(g)
    \/ AfterTextEnd(g)
    \/ AfterRunFinished(g)
    \/ ConsumerReturn(g)
    \/ ConsumerAbandon(g)

LazySpec == Init /\ [][LazyNext]_vars

\* the executable of a request of g has been called and has not settled
Executing(g) ==
  execLog[g] # <<>> /\ Last(execLog[g]).outcome = "pending"

\* C34: processPrompt is lazily driven.  As long as no event sequence has
\* been asked for an event isProcessing is false, and a sequence that was
\* created and not asked has emitted nothing, called no resolver and
\* executed no tool; an executable is only ever running on behalf of a
\* pending request for the event after TOOL_CALL_START of its tool call
\* (after TOOL_CALL_ARGS when the call has arguments); and a run whose
\* consumer has stopped asking executes nothing.
C34_LazilyDriven ==
  /\ (\A g \in Gens : ~Started(g)) => ~isProcessing
  /\ \A g \in Gens :
       /\ pc[g] = "start" =>
            events[g] = <<>> /\ execLog[g] = <<>> /\ resolveLog[g] = 0
       /\ Executing(g) =>
            LET i == Last(execLog[g]).idx
                call == toolCalls[g][i]
                asked == Last(events[g])
            IN /\ pc[g] = "aTool"
               /\ asked.toolCallId = ToolCallId(g, i)
               /\ asked.type = IF Truthy(call.args) /\ NumKeys(call.args) > 0
                               THEN "TOOL_CALL_ARGS" ELSE "TOOL_CALL_START"
       /\ pc[g] \in InTryYields \cup {"abandoned"} => ~Executing(g)

\* one run executes a tool with arguments, requested after TOOL_CALL_ARGS,
\* while another event sequence has been created and not asked for an event
C34_Witness ==
  \E g, h \in Gens :
    /\ Executing(g)
    /\ Last(events[g]).type = "TOOL_CALL_ARGS"
    /\ pc[h] = "start"


(***************************************************************************)
(* The text of a run that was phrased by generateIntelligentResponse.      *)
(***************************************************************************)
\* the texts generateIntelligentResponse can have returned to the run of g:
\* a string content of the service, or the templated sentence
GeneratedResponses(g) ==
  {content.s : content \in {c \in RemoteContents : c.t = "str"}}
    \cup {LLMSimpleResponse(executedTools[g])}

\* C35: streamResponse with useRealLLM true and at least one executed
\* tool: the TEXT_MESSAGE_CONTENT events are as many as the space-separated
\* words of the generated response, at least one, and their deltas
\* concatenated in emission order are the response text.
C35_ChunkingPreservesResponse ==
  \A g \in Gens :
    (useRealLLM /\ TextComplete(g) /\ Len(executedTools[g]) > 0) =>
      \E response \in GeneratedResponses(g) :
        /\ Count(events[g], "TEXT_MESSAGE_CONTENT") = Len(split(response))
        /\ Len(split(response)) >= 1
        /\ Text(events[g]) = response


(***************************************************************************)
(* Mode selection of the starter-kit LLMClient: the settings of the page   *)
(* call setApiKey and clearApiKey between runs.                            *)
(***************************************************************************)
ModeKeys == ApiKeys \cup {JNull}

ModeNext ==
  \/ \E k \in ModeKeys : ~isProcessing /\ SetApiKey(k)
  \/ ~isProcessing /\ ClearApiKey
  \/ \E g \in Gens :
       \/ \E p \in LazyPrompts : Call(g, p)
       \/ BusyReject(g)
       \/ BusyReturn(g)
       \/ Accept(g)
       \/ CallResolver(g)
       \/ \E reply \in LazyReplies : FetchToolsOk(g, reply)
       \/ \E why \in FetchFailures : FetchToolsFail(g, why)
       \/ KeywordsOk(g)
       \/ AfterToolStart(g)
       \/ AfterToolArgs(g)
       \/ ToolResolves(g, ToolResultOk)
       \/ ToolRejects(g)
       \/ AfterToolEnd(g)
       \/ AfterToolResult(g)
       \/ AfterToolEndErr(g)
       \/ AfterToolResultErr(g)
       \/ AfterTextStart(g)
       \/ PhraseLocal(g)
       \/ \E content \in DegradeContents : PhraseOk(g, content)
       \/ PhraseFail(g)
       \/ AfterChunk(g)
       \/ ChunkDelayDone(g)
       \/ AfterContent(g)
       \/ AfterTextEnd(g)
       \/ AfterRunFinished(g)

ModeSpec == Init /\ [][ModeNext]_vars

\* generator g is the accepted run under way
InRun(g) ==
  isProcessing /\ pc[g] \notin {"unborn", "start", "yBusy", "done",
                                "doneForgotten"}

\* a remote call of the run of g is under way
RemoteCall(g) == pc[g] \in {"aFetchTools", "aPhraseFetch"}

KeyIsEmpty == apiKey \in {JStr(""), JNull}

AnswerPrompts == {JStr("Show my portfolio and REFRESH"), JStr("hello")}
AnswerReplies ==
  { <<>>,
    << [type |-> "other", name |-> "getPortfolio", arguments |-> "{}"] >>,
    << [type |-> "function", name |-> "rebalancePortfolio",
        arguments |-> "{\"strategy\":\"aggressive\"}"],
       [type |-> "other", name |-> "refreshData", arguments |-> ""],
       [type |-> "function", name |-> "getPortfolio", arguments |-> ""] >> }

AnswerNext ==
  \E g \in Gens :
    \/ \E p \in AnswerPrompts : GetToolCalls(g, p)
    \/ \E reply \in AnswerReplies : OpenAIAnswers(g, reply)
    \/ \E why \in FetchFailures : OpenAIFails(g, why)
    \/ KeywordsReturns(g)

AnswerSpec == ResolverInit /\ [][AnswerNext]_vars

\* the function tool calls of an answer, in the answer's order
FunctionCalls(reply) ==
  LET fs == SelectSeq(reply, LAMBDA c : c.type = "function")
  IN [k \in 1..Len(fs) |->
        [name |-> fs[k].name,
         args |-> IF fs[k].arguments = "" THEN JObj(<<>>)
                  ELSE JSONparse(fs[k].arguments)]]

\* the keyword rules were entered for invocation g
EnteredKeywords(g) ==
  pc[g] = "aKeywords" \/ "tools" \in DOMAIN held[g]

\* the remote call of invocation g answered
RemoteAnswered(g) == pc[g] = "returned" /\ held[g].remote = "answered"

\* C37: in both implementations, when the remote call answers, getToolCalls
\* returns the function tool calls of the answer in the answer's order and
\* never enters the keyword rules: an answer without a function tool call
\* gives the empty list also for a prompt the rules match.
C37_AnswerIsReturned ==
  \A g \in Gens :
    RemoteAnswered(g) =>
      /\ ~EnteredKeywords(g)
      /\ \E reply \in AnswerReplies : toolCalls[g] = FunctionCalls(reply)

\* one invocation returned the empty list for a prompt two rules match,
\* another returned the two function calls of an answer of three
C37_Witness ==
  \E g, h \in Gens :
    /\ RemoteAnswered(g) /\ toolCalls[g] = <<>>
    /\ KeywordsOf(prompt[g]) # <<>>
    /\ RemoteAnswered(h) /\ Len(toolCalls[h]) = 2
    /\ toolCalls[h][1].name = "rebalancePortfolio"


(***************************************************************************)
(* The runs of executeDirectTool.                                          *)
(***************************************************************************)
\* direct runs with and without arguments, of a tool of the array and of a
\* name that is not in it, beside the runs of one prompt
DirectRunsPrompts == {JStr("refresh")}
DirectRunsArgs == {JObj(<<>>), JObj(<< <<"force", JBool(TRUE)>> >>)}

DirectRunsNext ==
  \E g \in Gens :
    \/ \E p \in DirectRunsPrompts : Call(g, p)
    \/ BusyReject(g)
    \/ BusyReturn(g)
    \/ Accept(g)
    \/ CallResolver(g)
    \/ KeywordsOk(g)
    \/ AfterToolStart(g)
    \/ ToolResolves(g, ToolResultOk)
    \/ ToolRejects(g)
    \/ AfterToolEnd(g)
    \/ AfterToolResult(g)
    \/ AfterToolEndErr(g)
    \/ AfterToolResultErr(g)
    \/ AfterTextStart(g)
    \/ AfterContent(g)
    \/ AfterTextEnd(g)
    \/ AfterRunFinished(g)
    \/ \E toolName \in DirectToolNames, args \in DirectRunsArgs :
         DirectStart(g, toolName, args)
    \/ DirectFindTool(g)
    \/ DirectAfterNotFound(g)
    \/ DirectAfterToolStart(g)
    \/ DirectAfterToolArgs(g)
    \/ DirectToolResolves(g, ToolResultOk)
    \/ DirectToolResolves(g, JCircular)
    \/ DirectToolRejects(g)
    \/ DirectAfterToolEnd(g)
    \/ DirectAfterToolResult(g)
    \/ DirectAfterTextStart(g)
    \/ DirectAfterContent(g)
    \/ DirectFinish(g)
    \/ DirectAfterRunFinished(g)

DirectRunsSpec == ToolRunsInit /\ [][DirectRunsNext]_vars

DirectLabels ==
  {"dRunStarted", "dNotFound", "dToolStart", "dToolArgs", "dTool",
   "dToolEnd", "dToolResult", "dTextStart", "dContent", "dTextEnd",
   "dRunError", "dRunFinished", "dDone"}

\* the labels of a processPrompt run between its acceptance and its finally
AcceptedLabels ==
  {"yRunStarted", "aFetchTools", "aKeywords", "yToolStart", "yToolArgs",
   "aTool", "yToolEnd", "yToolResult", "yToolEndErr", "yToolResultErr",
   "yTextStart", "aPhraseLocal", "aPhraseFetch", "yChunk", "aChunkDelay",
   "yContent", "yTextEnd", "yRunError", "yRunFinished"}

SummaryPrompts == {JStr("Refresh and ANALYZE"), JStr("hello")}
SummaryTools == {StarterTools, <<"analyzeData">>}

SummaryNext ==
  \/ \E newTools \in SummaryTools : UpdateTools(newTools)
  \/ \E g \in Gens :
       \/ \E p \in SummaryPrompts : Call(g, p)
       \/ BusyReject(g)
       \/ BusyReturn(g)
       \/ Accept(g)
       \/ CallResolver(g)
       \/ KeywordsOk(g)
       \/ AfterToolStart(g)
       \/ ToolResolves(g, ToolResultOk)
       \/ ToolResolves(g, JCircular)
       \/ ToolRejects(g)
       \/ AfterToolEnd(g)
       \/ AfterToolResult(g)
       \/ AfterToolEndErr(g)
       \/ AfterToolResultErr(g)
       \/ AfterTextStart(g)
       \/ AfterContent(g)
       \/ AfterTextEnd(g)
       \/ AfterRunFinished(g)

SummarySpec == OrderInit /\ [][SummaryNext]_vars

\* the names of the tool calls the events of a run report as succeeded (a
\* TOOL_CALL_RESULT carrying the result of the executable), in the order of
\* their TOOL_CALL_START events
SucceededNames(evs) ==
  LET ok == SelectSeq(evs, LAMBDA s :
              /\ s.type = "TOOL_CALL_START"
              /\ \E p \in 1..Len(evs) :
                   /\ evs[p].type = "TOOL_CALL_RESULT"
                   /\ evs[p].toolCallId = s.toolCallId
                   /\ evs[p].result = JSONstringify(ToolResultOk))
  IN [k \in 1..Len(ok) |-> ok[k].toolCallName]

\* the names of the requests of g whose executable rejected
RejectedNames(g) ==
  {execLog[g][k].name : k \in {m \in 1..Len(execLog[g]) :
                                 execLog[g][m].outcome = "threw"}}

\* the sentence that names the tools of a list
SummaryNaming(names) ==
  IF Len(names) = 1
  THEN "I've executed the " \o names[1]
         \o " tool for you. The results are displayed in your application above."
  ELSE "I've executed multiple tools for you: " \o join(names, ", ")
         \o ". The results are displayed in your application above."

\* C39: local mode of the starter kit: once the text of a run is complete,
\* it is the summary that names, in execution order, exactly the tools
\* whose execution succeeded in the run; a tool that was requested and
\* failed, or is not in the tool array, is not among them (with no
\* succeeded tool the text is the 'no tools' sentence, which names none).
C39_SummaryNamesSucceeded ==
  \A g \in Gens :
    (TextComplete(g) /\ Count(events[g], "RUN_ERROR") = 0) =>
      LET names == SucceededNames(events[g])
          requested == {toolCalls[g][j].name : j \in 1..Len(toolCalls[g])}
      IN /\ Text(events[g]) = IF names = <<>>
                              THEN generateNoToolsResponse(prompt[g])
                              ELSE SummaryNaming(names)
         /\ \A k \in 1..Len(names) :
               /\ names[k] \in requested
               /\ names[k] \notin RejectedNames(g)
               /\ \E m \in 1..Len(execLog[g]) :
                    /\ execLog[g][m].name = names[k]
                    /\ execLog[g][m].outcome = "returned"
         /\ Len(names) = Len(executedTools[g])

\* a run requested two tools; the executable of the first rejected and the
\* second succeeded: the text names the second alone
C39_Witness ==
  \E g \in Gens :
    /\ TextComplete(g)
    /\ Len(toolCalls[g]) = 2
    /\ RejectedNames(g) = {"refreshData"}
    /\ SucceededNames(events[g]) = <<"analyzeData">>
    /\ Text(events[g]) = "I've executed the analyzeData tool for you. The results are displayed in your application above."


(***************************************************************************)
(* The page of the starter kit (main.js): handleUserInput drives           *)
(* processPrompt and hands every event to AgentUI.renderEvent, which       *)
(* passes the completed message to ChatUI.addAgentMessage.  In PageSpec    *)
(* `app` is the state of the two sinks: AgentUI.currentMessage (the        *)
(* message id, <<>> for null), AgentUI.messageBuffer, ChatUI.messages, and *)
(* the number of events of the run that the for-await loop has handed to   *)
(* renderEvent; `added` lists the messages passed to                       *)
(* ChatUI.addAgentMessage since the last call of handleUserInput.          *)
(***************************************************************************)
PagePrompts == {JStr("refresh")}
PageKeys == {JStr("sk-test")}

NoMessage == <<>>
SinksAtStart ==
  [currentMessage |-> NoMessage, messageBuffer |-> "", messages |-> <<>>,
   consumed |-> 0, added |-> <<>>]

\* AgentUI.clear, main.js:390-395
AgentUIclear(ui) ==
  [ui EXCEPT !.currentMessage = NoMessage, !.messageBuffer = ""]

\* ChatUI.addUserMessage, ChatUI.addAgentMessage, ChatUI.clear
addUserMessage(ui, message) ==
  [ui EXCEPT !.messages = Append(@, [type |-> "user", content |-> message])]
addAgentMessage(ui, message) ==
  [ui EXCEPT !.messages = Append(@, [type |-> "agent", content |-> message]),
             !.added = Append(@, message)]
ChatUIclear(ui) == [ui EXCEPT !.messages = <<>>]

\* AgentUI.renderEvent, main.js:300-384, with the callback of main.js:31-34
renderEvent(ui, event) ==
  IF event.type = "TEXT_MESSAGE_START"
  THEN [ui EXCEPT !.currentMessage = event.messageId, !.messageBuffer = ""]
  ELSE IF event.type = "TEXT_MESSAGE_CONTENT"
  THEN IF ui.currentMessage # NoMessage /\ ui.currentMessage = event.messageId
       THEN [ui EXCEPT !.messageBuffer = @ \o event.delta]
       ELSE ui
  ELSE IF event.type = "TEXT_MESSAGE_END"
  THEN IF ui.currentMessage # NoMessage /\ ui.currentMessage = event.messageId
       THEN [addAgentMessage(ui, ui.messageBuffer)
               EXCEPT !.currentMessage = NoMessage]
       ELSE ui
  ELSE ui

PageInit ==
  /\ isProcessing = FALSE
  /\ \/ useRealLLM = FALSE /\ apiKey = JNull
     \/ useRealLLM = TRUE /\ apiKey \in PageKeys
  /\ tools = StarterTools
  /\ app = SinksAtStart
  /\ pc = [g \in Gens |-> "unborn"]
  /\ prompt = [g \in Gens |-> JUndefined]
  /\ events = [g \in Gens |-> <<>>]
  /\ toolCalls = [g \in Gens |-> <<>>]
  /\ idx = [g \in Gens |-> 0]
  /\ executedTools = [g \in Gens |-> <<>>]
  /\ held = [g \in Gens |-> JUndefined]
  /\ words = [g \in Gens |-> <<>>]
  /\ widx = [g \in Gens |-> 0]
  /\ execLog = [g \in Gens |-> <<>>]
  /\ resolveLog = [g \in Gens |-> 0]

\* handleUserInput with a prompt that is not empty, main.js:149-173: when
\* the agent is busy it alerts and returns; otherwise the user message is
\* added, the event panel is cleared, and processPrompt is called and asked
\* for its first event in the same turn (agent-client.js:32-45)
handleUserInput(g, p) ==
  /\ pc[g] = "unborn"
  /\ \A h \in Gens : h < g => Started(h)
  /\ ~isProcessing
  /\ isProcessing' = TRUE
  /\ app' = [AgentUIclear(addUserMessage(app, p.s))
               EXCEPT !.consumed = 0, !.added = <<>>]
  /\ prompt' = [Drop(prompt, DrainedRuns, JUndefined) EXCEPT ![g] = p]
  /\ events' = [Drop(events, DrainedRuns, <<>>) EXCEPT
                  ![g] = <<RunStartedEvent(ThreadId(g), RunId(g))>>]
  /\ pc' = [h \in Gens |-> IF h = g THEN "yRunStarted"
                            ELSE IF h \in DrainedRuns THEN "doneForgotten"
                            ELSE pc[h]]
  /\ toolCalls' = Drop(toolCalls, DrainedRuns, <<>>)
  /\ idx' = Drop(idx, DrainedRuns, 0)
  /\ executedTools' = Drop(executedTools, DrainedRuns, <<>>)
  /\ held' = Drop(held, DrainedRuns, JUndefined)
  /\ words' = Drop(words, DrainedRuns, <<>>)
  /\ widx' = Drop(widx, DrainedRuns, 0)
  /\ execLog' = Drop(execLog, DrainedRuns, <<>>)
  /\ resolveLog' = Drop(resolveLog, DrainedRuns, 0)
  /\ UNCHANGED <<useRealLLM, apiKey, tools>>

\* the for-await loop has handed every event of the run to renderEvent
Consumed(g) == app.consumed = Len(events[g])

\* the body of the for-await loop, main.js:171-173: the event just received
\* is rendered, and only then is the next one requested
Render(g) ==
  /\ pc[g] \in InTryYields
  /\ app.consumed < Len(events[g])
  /\ app' = [renderEvent(app, events[g][app.consumed + 1])
               EXCEPT !.consumed = @ + 1]
  /\ UNCHANGED <<isProcessing, useRealLLM, apiKey, tools, pc, prompt, events,
                 locals, execLog, resolveLog>>

\* a click is handled between two turns of the event loop: not while a
\* received event is being handled and the next one requested
BetweenTurns == \A g \in Gens : pc[g] \notin InTryYields

\* the click handler of the 'clear' button, shown while the remote mode is
\* on, main.js:89-103
ClearLlmClick ==
  /\ BetweenTurns
  /\ useRealLLM
  /\ useRealLLM' = FALSE
  /\ apiKey' = JNull
  /\ app' = ChatUIclear(AgentUIclear(app))
  /\ UNCHANGED <<isProcessing, tools, pc, prompt, events, locals, execLog,
                 resolveLog>>

\* the click handler of the 'configure' button with a key that starts with
\* 'sk-', main.js:63-87
ConfigureLlmClick(k) ==
  /\ BetweenTurns
  /\ ~useRealLLM
  /\ useRealLLM' = TRUE
  /\ apiKey' = k
  /\ app' = ChatUIclear(AgentUIclear(app))
  /\ UNCHANGED <<isProcessing, tools, pc, prompt, events, locals, execLog,
                 resolveLog>>

PageNext ==
  \/ ClearLlmClick
  \/ \E k \in PageKeys : ConfigureLlmClick(k)
  \/ \E g \in Gens :
       \/ \E p \in PagePrompts : handleUserInput(g, p)
       \/ Render(g)
       \/ Consumed(g) /\ CallResolver(g)
       \/ \E reply \in LazyReplies : FetchToolsOk(g, reply)
       \/ \E why \in FetchFailures : FetchToolsFail(g, why)
       \/ KeywordsOk(g)
       \/ Consumed(g) /\ AfterToolStart(g)
       \/ Consumed(g) /\ AfterToolArgs(g)
       \/ ToolResolves(g, ToolResultOk)
       \/ ToolRejects(g)
       \/ Consumed(g) /\ AfterToolEnd(g)
       \/ Consumed(g) /\ AfterToolResult(g)
       \/ Consumed(g) /\ AfterToolEndErr(g)
       \/ Consumed(g) /\ AfterToolResultErr(g)
       \/ Consumed(g) /\ AfterTextStart(g)
       \/ \E content \in DegradeContents : PhraseOk(g, content)
       \/ PhraseFail(g)
       \/ Consumed(g) /\ AfterChunk(g)
       \/ ChunkDelayDone(g)
       \/ Consumed(g) /\ AfterContent(g)
       \/ Consumed(g) /\ AfterTextEnd(g)
       \/ Consumed(g) /\ AfterRunFinished(g)

PageSpec == PageInit /\ [][PageNext]_vars

\* C40: the event sink wiring of the page.  Once every event a run has
\* emitted is rendered, the transcript has received, for a run that has
\* reached TEXT_MESSAGE_END, exactly one agent message, the concatenation
\* of the TEXT_MESSAGE_CONTENT deltas of the run's message, and none for a
\* run that has not (a run that failed before TEXT_MESSAGE_START among
\* them).
C40_OneAgentMessagePerRun ==
  \A g \in Gens :
    (events[g] # <<>> /\ Consumed(g)) =>
      app.added =
        IF Count(events[g], "TEXT_MESSAGE_END") = 1
        THEN <<Text(events[g])>> ELSE <<>>

====
